---- MODULE Spec2Model ----
(***************************************************************************)
(* Calendar ingestion of pinchy-dash: ics_reader.py (path resolution,      *)
(* .ics parsing with recurrence expansion, aggregation) and the request    *)
(* flows of app.py and collector.py that call it.                          *)
(*                                                                         *)
(* Time is counted in minutes from 2025-12-01 00:00 (day 0).  A value of   *)
(* DTSTART/DTEND is a record [kind, aware, t]: kind "date" is a            *)
(* datetime.date (t is its midnight), "datetime" a datetime.datetime,      *)
(* "none" an absent property; aware says whether it carries a tzinfo.      *)
(* Text the code formats with strftime is kept as the tuple of its         *)
(* zero-padded numeric fields: a date "%Y-%m-%d" is <<y, m, d>>, a clock   *)
(* time "%H:%M" is <<h, mi>>, the sort key "%Y-%m-%d %H:%M" is             *)
(* <<y, m, d, h, mi>>; comparing the padded strings is comparing these     *)
(* tuples lexicographically.  Names of directories are sequences of        *)
(* one-character strings.                                                  *)
(***************************************************************************)
EXTENDS Integers, Sequences, FiniteSets, TLC

VARIABLES
    fs,        \* the filesystem: canonical directory path -> node
    openclaw,  \* the parent of the directory /root/.openclaw resolves to
    today,     \* day index of datetime.now() at the time of the call
    call,      \* the call of ics_reader made directly: [op, ...arguments]
    ret,       \* what that call returned: [raised, value]
    cfg,       \* the merged configuration _get_config returns
    req,       \* the request being served, or the requests: handlers' locals
    data       \* the files of DATA_DIR: file name -> stored content

vars == <<fs, openclaw, today, call, ret, cfg, req, data>>

---------------------------------------------------------------------------
(* Bounds of the model *)

\* The day index of "today" (30 is 2025-12-31: the window crosses a month
\* and a year end).
TodayIndex == 30
\* Largest days_ahead a request of the model asks for.
MaxDays == 2
\* How many days before today a definition of the model may start.
MaxBack == 2

---------------------------------------------------------------------------
(* Program constants *)

\* events[:50] in read_calendar_events
MaxEvents == 50
\* len(occurrences) >= 50 in _expand_rrule
MaxOccurrences == 50
\* timedelta(hours=1), in minutes
OneHour == 60

MinutesPerDay == 24 * 60

---------------------------------------------------------------------------
(* datetime arithmetic and strftime *)

IsLeap(y) == (y % 4 = 0 /\ y % 100 # 0) \/ y % 400 = 0

DaysInMonth(y, m) ==
    IF m = 2 THEN (IF IsLeap(y) THEN 29 ELSE 28)
    ELSE IF m \in {4, 6, 9, 11} THEN 30 ELSE 31

RECURSIVE YMDFrom(_, _, _)
YMDFrom(y, m, n) ==
    IF n < DaysInMonth(y, m) THEN <<y, m, n + 1>>
    ELSE YMDFrom(IF m = 12 THEN y + 1 ELSE y,
                 IF m = 12 THEN 1 ELSE m + 1,
                 n - DaysInMonth(y, m))

\* strftime("%Y-%m-%d") of the day with index day
DateStr(day) == YMDFrom(2025, 12, day)

\* strftime("%H:%M") of a datetime at minute t
TimeStr(t) == <<(t % MinutesPerDay) \div 60, t % 60>>

\* strftime("%Y-%m-%d %H:%M")
SortKeyStr(t) == DateStr(t \div MinutesPerDay) \o TimeStr(t)

\* The literal "All day"
AllDay == <<"All day">>

\* The empty string
EmptyStr == <<>>

DT(kind, aware, t) == [kind |-> kind, aware |-> aware, t |-> t]
NoDT == DT("none", FALSE, 0)

\* datetime.combine(today, time.min): the window's start, range_start
MidnightOf(day) == day * MinutesPerDay

\* s1 < s2 for two strings of zero-padded numeric fields of equal layout
RECURSIVE StrLessFrom(_, _, _)
StrLessFrom(a, b, i) ==
    IF i > Len(a) \/ i > Len(b) THEN Len(a) < Len(b)
    ELSE IF a[i] # b[i] THEN a[i] < b[i]
    ELSE StrLessFrom(a, b, i + 1)

StrLess(a, b) == StrLessFrom(a, b, 1)

---------------------------------------------------------------------------
(* _make_event *)

\* The optional result of _make_event and _check_and_make_event is a
\* sequence: <<>> is None, <<e>> is the event dict e.
_make_event(dt_val, end_val, summary, location, cal_name) ==
    IF dt_val.kind \notin {"date", "datetime"} THEN <<>>
    ELSE
    LET all_day  == dt_val.kind = "date"
        date_str == DateStr(dt_val.t \div MinutesPerDay)
        time_str == IF all_day THEN AllDay ELSE TimeStr(dt_val.t)
        sort_key == IF all_day
                    THEN DateStr(dt_val.t \div MinutesPerDay) \o <<0, 0>>
                    ELSE SortKeyStr(dt_val.t)
        end_str  == IF end_val.kind = "datetime" THEN TimeStr(end_val.t)
                    ELSE EmptyStr
    IN  << [ date      |-> date_str,
             time      |-> time_str,
             end       |-> end_str,
             title     |-> summary,
             location  |-> location,
             calendar  |-> cal_name,
             all_day   |-> all_day,
             _sort_key |-> sort_key ] >>

---------------------------------------------------------------------------
(* _check_and_make_event *)

\* start_naive of _check_and_make_event (tzinfo dropped, a date at midnight)
StartNaive(dt_val) == dt_val.t

\* end_naive of _check_and_make_event
EndNaive(dt_val, end_val) ==
    IF end_val.kind \in {"date", "datetime"} THEN end_val.t
    ELSE StartNaive(dt_val) + OneHour

\* _check_and_make_event without the test of the start against range_end
_check_and_make_event_NoRangeEnd(dt_val, end_val, range_start, range_end, summary, location, cal_name) ==
    IF dt_val.kind \notin {"date", "datetime"} THEN <<>>
    ELSE IF EndNaive(dt_val, end_val) < range_start THEN <<>>
    ELSE _make_event(dt_val, end_val, summary, location, cal_name)

\* _check_and_make_event with ">=" for ">" in the test against range_end
_check_and_make_event_StrictEnd(dt_val, end_val, range_start, range_end, summary, location, cal_name) ==
    IF dt_val.kind \notin {"date", "datetime"} THEN <<>>
    ELSE IF StartNaive(dt_val) >= range_end THEN <<>>
    ELSE IF EndNaive(dt_val, end_val) < range_start THEN <<>>
    ELSE _make_event(dt_val, end_val, summary, location, cal_name)

_check_and_make_event(dt_val, end_val, range_start, range_end, summary, location, cal_name) ==
    IF dt_val.kind \notin {"date", "datetime"} THEN <<>>
    ELSE IF StartNaive(dt_val) > range_end THEN <<>>
    ELSE IF EndNaive(dt_val, end_val) < range_start THEN <<>>
    ELSE _make_event(dt_val, end_val, summary, location, cal_name)

---------------------------------------------------------------------------
(* _expand_rrule *)

\* duration of _expand_rrule.  Aware values of the model share one zone,
\* so their difference is the difference of their wall-clock times.
Duration(dtstart, dtend) ==
    IF dtend.kind = "none" THEN OneHour
    ELSE IF dtstart.kind = "date" THEN dtend.t - dtstart.t
    ELSE IF dtstart.kind = "datetime" /\ dtend.kind = "datetime"
         THEN dtend.t - dtstart.t
    ELSE OneHour

\* The statements of _expand_rrule that raise before its loop: date
\* arithmetic on mixed types (datetime - date, naive - aware: TypeError),
\* and rrulestr on a rule or a start it rejects (ValueError).
ExpandRaises(component) ==
    LET dtstart == component.dtstart
        dtend   == component.dtend
    IN  \/ dtstart.kind = "date" /\ dtend.kind = "datetime"
        \/ /\ dtstart.kind = "datetime" /\ dtend.kind = "datetime"
           /\ dtstart.aware # dtend.aware
        \/ dtstart.kind \notin {"date", "datetime"}
        \/ ~component.rrule.valid

\* The k-th value of iterating the rule: dateutil's rrule turns a date
\* DTSTART into a datetime at midnight and yields datetimes only.
RuleOccurrence(component, k) ==
    DT("datetime", component.dtstart.aware,
       component.dtstart.t + k * component.rrule.step)

\* Whether the rule's iterator is exhausted after k values (COUNT)
RuleExhausted(component, k) ==
    component.rrule.count > 0 /\ k >= component.rrule.count

\* An iteration of the loop with the cap tested by ">" for ">="
LoopBody_CapAfter(component, duration, r_start, r_end, st, k) ==
    IF st.done THEN st
    ELSE IF RuleExhausted(component, k) THEN [st EXCEPT !.done = TRUE]
    ELSE
    LET occ     == RuleOccurrence(component, k)
        occ_end == DT("datetime", occ.aware, occ.t + duration)
        kept    == IF occ.t >= r_start \/ occ_end.t >= r_start
                   THEN Append(st.occurrences, <<occ, occ_end>>)
                   ELSE st.occurrences
    IN  IF occ.t > r_end
        THEN [st EXCEPT !.iterations = k + 1, !.done = TRUE]
        ELSE [occurrences |-> kept, iterations |-> k + 1,
              done |-> Len(kept) > MaxOccurrences]

\* An iteration of the loop with the end of an occurrence tested by ">"
\* for ">="
LoopBody_EndAfterStart(component, duration, r_start, r_end, st, k) ==
    IF st.done THEN st
    ELSE IF RuleExhausted(component, k) THEN [st EXCEPT !.done = TRUE]
    ELSE
    LET occ     == RuleOccurrence(component, k)
        occ_end == DT("datetime", occ.aware, occ.t + duration)
        kept    == IF occ.t >= r_start \/ occ_end.t > r_start
                   THEN Append(st.occurrences, <<occ, occ_end>>)
                   ELSE st.occurrences
    IN  IF occ.t > r_end
        THEN [st EXCEPT !.iterations = k + 1, !.done = TRUE]
        ELSE [occurrences |-> kept, iterations |-> k + 1,
              done |-> Len(kept) >= MaxOccurrences]

\* One iteration of "for occ in rule", the k-th (from 0), on the loop's
\* state [occurrences, iterations, done]; r_start and r_end carry the tzinfo
\* of dtstart, so the comparisons are on wall-clock minutes.
LoopBody(component, duration, r_start, r_end, st, k) ==
    IF st.done THEN st
    ELSE IF RuleExhausted(component, k) THEN [st EXCEPT !.done = TRUE]
    ELSE
    LET occ     == RuleOccurrence(component, k)
        occ_end == DT("datetime", occ.aware, occ.t + duration)
        kept    == IF occ.t >= r_start \/ occ_end.t >= r_start
                   THEN Append(st.occurrences, <<occ, occ_end>>)
                   ELSE st.occurrences
    IN  IF occ.t > r_end
        THEN [st EXCEPT !.iterations = k + 1, !.done = TRUE]
        ELSE [occurrences |-> kept, iterations |-> k + 1,
              done |-> Len(kept) >= MaxOccurrences]

\* The iterations lo .. hi - 1 of the loop, one after the other, up to the
\* one that leaves the loop
RECURSIVE LoopRange(_, _, _, _, _, _, _)
LoopRange(component, duration, r_start, r_end, st, lo, hi) ==
    IF st.done \/ hi <= lo THEN st
    ELSE IF hi = lo + 1
    THEN LoopBody(component, duration, r_start, r_end, st, lo)
    ELSE LET mid  == (lo + hi) \div 2
             left == LoopRange(component, duration, r_start, r_end,
                               st, lo, mid)
         IN  IF left.done THEN left
             ELSE LoopRange(component, duration, r_start, r_end,
                            left, mid, hi)

\* The rule's values grow, so the loop has ended at the latest with the
\* first value behind r_end: the number of iterations is at most this.
IterationBound(component, r_end) ==
    IF component.dtstart.t > r_end THEN 1
    ELSE (r_end - component.dtstart.t) \div component.rrule.step + 2

\* [raised, occurrences, iterations]: the list of (occ, occ_end) returned,
\* and how many values the loop took from the rule.
_expand_rrule(component, range_start, range_end) ==
    IF ExpandRaises(component)
    THEN [raised |-> TRUE, occurrences |-> <<>>, iterations |-> 0]
    ELSE LET r == LoopRange(component,
                            Duration(component.dtstart, component.dtend),
                            range_start, range_end,
                            [occurrences |-> <<>>, iterations |-> 0,
                             done |-> FALSE],
                            0, IterationBound(component, range_end))
         IN  [raised |-> FALSE, occurrences |-> r.occurrences,
              iterations |-> r.iterations]

---------------------------------------------------------------------------
(* _parse_ics_file *)

RECURSIVE FlattenSeq(_)
FlattenSeq(ss) ==
    IF ss = <<>> THEN <<>> ELSE Head(ss) \o FlattenSeq(Tail(ss))

\* "if ev: events.append(ev)" over a list of optional events
Present(evs) ==
    LET some == SelectSeq(evs, LAMBDA ev : ev # <<>>)
    IN  [i \in 1..Len(some) |-> some[i][1]]

\* The events of the single-event handling of one component
SingleEvent(component, range_start, range_end, cal_name) ==
    _check_and_make_event(component.dtstart, component.dtend,
                          range_start, range_end,
                          component.summary, component.location, cal_name)

\* A definition whose expansion raises yields nothing
ComponentEvents_SkipOnRaise(component, range_start, range_end, cal_name) ==
    IF component.name # "VEVENT" THEN <<>>
    ELSE IF component.dtstart.kind = "none" THEN <<>>
    ELSE IF component.rrule.has
    THEN LET x == _expand_rrule(component, range_start, range_end)
         IN  IF x.raised THEN <<>>
             ELSE Present([i \in 1..Len(x.occurrences) |->
                      _make_event(x.occurrences[i][1], x.occurrences[i][2],
                                  component.summary, component.location,
                                  cal_name)])
    ELSE SingleEvent(component, range_start, range_end, cal_name)

\* The body of the loop over cal.walk() for one component
ComponentEvents(component, range_start, range_end, cal_name) ==
    IF component.name # "VEVENT" THEN <<>>
    ELSE IF component.dtstart.kind = "none" THEN <<>>
    ELSE IF component.rrule.has
    THEN LET x == _expand_rrule(component, range_start, range_end)
         IN  IF x.raised
             THEN SingleEvent(component, range_start, range_end, cal_name)
             ELSE Present([i \in 1..Len(x.occurrences) |->
                      _make_event(x.occurrences[i][1], x.occurrences[i][2],
                                  component.summary, component.location,
                                  cal_name)])
    ELSE SingleEvent(component, range_start, range_end, cal_name)

\* The file given up at the first definition without a usable DTSTART
_parse_ics_file_StopAtBad(file, range_start, range_end, cal_name) ==
    IF ~file.readable THEN <<>>
    ELSE LET bad == {i \in 1..Len(file.components) :
                        file.components[i].dtstart.kind
                            \notin {"date", "datetime"}}
             n   == IF bad = {} THEN Len(file.components)
                    ELSE (CHOOSE i \in bad : \A j \in bad : i <= j) - 1
         IN  FlattenSeq([i \in 1..n |->
                 ComponentEvents(file.components[i], range_start, range_end,
                                 cal_name)])

_parse_ics_file(file, range_start, range_end, cal_name) ==
    IF ~file.readable THEN <<>>
    ELSE FlattenSeq([i \in 1..Len(file.components) |->
             ComponentEvents(file.components[i], range_start, range_end,
                             cal_name)])

---------------------------------------------------------------------------
(* _friendly_name *)

\* The grave accent, which a string of the module cannot hold
Grave == "GRAVE"

\* The characters of the model's texts, in the order of their code points
Alphabet ==
    << "\t", "\n", " ", "#", ",", "-", ".", "/",
       "0", "1", "2", "3", "4", "5", "6", "7", "8", "9", ":",
       "A", "B", "C", "D", "E", "F", "G", "H", "I", "J", "K", "L", "M",
       "N", "O", "P", "Q", "R", "S", "T", "U", "V", "W", "X", "Y", "Z",
       "_", Grave,
       "a", "b", "c", "d", "e", "f", "g", "h", "i", "j", "k", "l", "m",
       "n", "o", "p", "q", "r", "s", "t", "u", "v", "w", "x", "y", "z" >>

CharCode(c) == CHOOSE i \in 1..Len(Alphabet) : Alphabet[i] = c

UpperLetters == {Alphabet[i] : i \in 20..45}
LowerLetters == {Alphabet[i] : i \in 48..73}

\* A lower-case letter stands 28 places behind its upper-case one
ToUpper(c) ==
    IF c \in LowerLetters THEN Alphabet[CharCode(c) - 28] ELSE c

ToLower(c) ==
    IF c \in UpperLetters THEN Alphabet[CharCode(c) + 28] ELSE c

IsCased(c) == c \in LowerLetters \cup UpperLetters

\* str.title(): a cased character is upper-cased when it follows an uncased
\* one (or starts the string) and lower-cased otherwise
Title(s) ==
    [i \in 1..Len(s) |->
        IF i = 1 \/ ~IsCased(s[i - 1]) THEN ToUpper(s[i]) ELSE ToLower(s[i])]

_friendly_name(dir_name) ==
    Title([i \in 1..Len(dir_name) |->
              IF dir_name[i] \in {"_", "-"} THEN " " ELSE dir_name[i]])

\* The whitespace of the model's texts
IsSpace(c) == c \in {" ", "\t", "\n"}

\* str.strip()
Strip(s) ==
    LET solid == {i \in 1..Len(s) : ~IsSpace(s[i])}
    IN  IF solid = {} THEN <<>>
        ELSE SubSeq(s, CHOOSE i \in solid : \A j \in solid : i <= j,
                       CHOOSE i \in solid : \A j \in solid : j <= i)

---------------------------------------------------------------------------
(* read_calendar_events *)

\* calendar_ids: None, or a list of ids
NoneIds == [none |-> TRUE, list |-> {}]
Ids(list) == [none |-> FALSE, list |-> list]

\* child.glob("*.ics")
GlobIcs(entry) == SelectSeq(entry.files, LAMBDA f : f.ext = "ics")

\* cal_name of one collection directory
CalName(entry) ==
    LET dn == entry.displayname
    IN  IF dn.exists /\ dn.readable /\ Strip(dn.text) # <<>>
        THEN Strip(dn.text)
        ELSE _friendly_name(entry.name)

\* The body of "for entry in base.iterdir()": what one entry appends
EntryEvents(entry, calendar_ids, range_start, range_end) ==
    IF ~entry.isDir THEN <<>>
    ELSE IF ~calendar_ids.none /\ entry.name \notin calendar_ids.list
    THEN <<>>
    ELSE LET files == GlobIcs(entry)
         IN  FlattenSeq([i \in 1..Len(files) |->
                 _parse_ics_file(files[i], range_start, range_end,
                                 CalName(entry))])

\* The list events when the loop over the entries has ended
CollectedEvents(entries, calendar_ids, range_start, range_end) ==
    FlattenSeq([i \in 1..Len(entries) |->
        EntryEvents(entries[i], calendar_ids, range_start, range_end)])

\* A list given by its elements, each worked out once
Listed(f) == <<>> \o f

\* The sort left out
SortBySortKey_Unsorted(events) == events

\* e.get("_sort_key", ""): the key of the sort
SortKeyOf(e) == IF "_sort_key" \in DOMAIN e THEN e._sort_key ELSE EmptyStr

\* A sort that is not stable: of two elements with equal keys the one at
\* the greater index comes first
SortBySortKey_Unstable(events) ==
    LET n    == Len(events)
        rank == Listed([k \in 1..n |->
                    Cardinality({j \in 1..n :
                        \/ StrLess(SortKeyOf(events[j]), SortKeyOf(events[k]))
                        \/ /\ SortKeyOf(events[j]) = SortKeyOf(events[k])
                           /\ j > k}) + 1])
        at   == [i \in 1..n |-> CHOOSE k \in 1..n : rank[k] = i]
    IN  [i \in 1..n |-> events[at[i]]]

\* events.sort(key=lambda e: e.get("_sort_key", "")): list.sort is stable,
\* so the element at index k goes behind the elements with a smaller key
\* and the elements with an equal key at a smaller index.
SortBySortKey(events) ==
    LET n    == Len(events)
        rank == Listed([k \in 1..n |->
                    Cardinality({j \in 1..n :
                        \/ StrLess(SortKeyOf(events[j]), SortKeyOf(events[k]))
                        \/ /\ SortKeyOf(events[j]) = SortKeyOf(events[k])
                           /\ j < k}) + 1])
        at   == [i \in 1..n |-> CHOOSE k \in 1..n : rank[k] = i]
    IN  [i \in 1..n |-> events[at[i]]]

\* The sort key left in the dict
PopSortKey_Kept(e) == e

\* e.pop("_sort_key", None)
PopSortKey(e) == [f \in (DOMAIN e) \ {"_sort_key"} |-> e[f]]

\* events[:n]
Prefix(s, n) == SubSeq(s, 1, IF Len(s) < n THEN Len(s) ELSE n)

\* The cap taken before the sort
SortStripCap_CapFirst(events) ==
    LET sorted == SortBySortKey(Prefix(events, MaxEvents))
    IN  [i \in 1..Len(sorted) |-> PopSortKey(sorted[i])]

\* The sort, the removal of the sort key and the cap
SortStripCap(events) ==
    LET sorted == SortBySortKey(events)
    IN  Prefix([i \in 1..Len(sorted) |-> PopSortKey(sorted[i])], MaxEvents)

Returned(v) == [raised |-> FALSE, value |-> v]
Raised == [raised |-> TRUE, value |-> <<>>]

Missing == [kind |-> "missing", listable |-> FALSE, entries |-> <<>>]

\* The node at a canonical path
Node(files, path) == IF path \in DOMAIN files THEN files[path] ELSE Missing

read_calendar_events(files, now, base_path, calendar_ids, days_ahead) ==
    LET base     == Node(files, base_path)
        end_date == now + days_ahead * MinutesPerDay
    IN  IF base.kind = "missing" THEN Returned(<<>>)
        ELSE IF base.kind # "dir" \/ ~base.listable THEN Raised
        ELSE Returned(SortStripCap(
                 CollectedEvents(base.entries, calendar_ids, now, end_date)))

---------------------------------------------------------------------------
(* discover_calendars *)

\* The order of two names of one directory under sorted(): by code point,
\* a proper prefix first
NameLess(a, b) ==
    \/ \E i \in 1..Len(a) :
          /\ i <= Len(b)
          /\ \A j \in 1..(i - 1) : a[j] = b[j]
          /\ CharCode(a[i]) < CharCode(b[i])
    \/ /\ Len(a) < Len(b)
       /\ \A j \in 1..Len(a) : a[j] = b[j]

\* sorted(base.iterdir()): the names of one directory differ
SortedEntries(entries) ==
    LET n    == Len(entries)
        rank == Listed([k \in 1..n |->
                    Cardinality({j \in 1..n :
                        NameLess(entries[j].name, entries[k].name)}) + 1])
    IN  [i \in 1..n |-> entries[CHOOSE k \in 1..n : rank[k] = i]]

\* name: the stripped text of the displayname file when the file exists
\* and can be read, the friendly name when it is absent or cannot be read
DiscoveredName(entry) ==
    LET dn == entry.displayname
    IN  IF dn.exists /\ dn.readable THEN Strip(dn.text)
        ELSE _friendly_name(entry.name)

\* color: the stripped text of the color file, "" without one
DiscoveredColor(entry) ==
    IF entry.color.exists /\ entry.color.readable
    THEN Strip(entry.color.text) ELSE <<>>

\* The dict appended for one collection directory
CalendarDict(base_path, entry) ==
    [id          |-> entry.name,
     name        |-> DiscoveredName(entry),
     path        |-> <<base_path, entry.name>>,
     event_count |-> Len(GlobIcs(entry)),
     color       |-> DiscoveredColor(entry)]

discover_calendars(files, base_path) ==
    LET base == Node(files, base_path)
    IN  IF base.kind = "missing" THEN Returned(<<>>)
        ELSE IF base.kind # "dir" \/ ~base.listable THEN Raised
        ELSE LET listed == SelectSeq(SortedEntries(base.entries),
                               LAMBDA e : e.isDir /\ GlobIcs(e) # <<>>)
             IN  Returned([i \in 1..Len(listed) |->
                              CalendarDict(base_path, listed[i])])

---------------------------------------------------------------------------
(* find_calendar_path *)

None == "<None>"

VdirCalendars == "/.local/share/vdirsyncer/calendars"

_FALLBACK_PATHS ==
    << "/calendars",
       "/root/.openclaw/../.local/share/vdirsyncer/calendars",
       "/root/.local/share/vdirsyncer/calendars" >>

\* Path(p).resolve(): a trailing slash is dropped, and ".." is taken from
\* the directory /root/.openclaw resolves to (itself, or the target of the
\* symlink it is); link is the parent of that directory.
Resolve(link, p) ==
    CASE p = "/calendars/"      -> "/calendars"
      [] p = _FALLBACK_PATHS[2] -> link \o VdirCalendars
      [] OTHER                  -> p

\* "child.is_dir() and list(child.glob("*.ics"))" for some child
HasCalendarSubdir(node) ==
    \E i \in 1..Len(node.entries) :
        /\ node.entries[i].isDir
        /\ GlobIcs(node.entries[i]) # <<>>

\* The source find_calendar_path gives to the candidate p
SourceOf_Resolved(link, p, configured_path) ==
    IF Resolve(link, p) = configured_path THEN "configured"
    ELSE "auto-detected"

SourceOf(link, p, configured_path) ==
    IF p = configured_path THEN "configured" ELSE "auto-detected"

\* The fallbacks tried before the configured path
PathsToTry_FallbacksFirst(configured_path) ==
    LET first == IF configured_path # "" /\ configured_path # None
                 THEN <<configured_path>> ELSE <<>>
    IN  SelectSeq(_FALLBACK_PATHS,
                  LAMBDA fb : \A i \in 1..Len(first) : first[i] # fb) \o first

\* paths_to_try: the configured path first, then the fallbacks not in the
\* list yet
PathsToTry(configured_path) ==
    LET first == IF configured_path # "" /\ configured_path # None
                 THEN <<configured_path>> ELSE <<>>
    IN  first \o SelectSeq(_FALLBACK_PATHS,
                           LAMBDA fb : \A i \in 1..Len(first) : first[i] # fb)

\* A directory that merely exists is taken
Accepts_AnyDirectory(node) == node.kind = "dir"

Accepts(node) == HasCalendarSubdir(node)

\* [raised, value]: value is (resolved_path, source) or (None, None)
find_calendar_path(files, link, configured_path) ==
    LET paths_to_try == PathsToTry(configured_path)
        ends == {i \in 1..Len(paths_to_try) :
                    LET node == Node(files, Resolve(link, paths_to_try[i]))
                    IN  node.kind = "dir" /\ (~node.listable \/ Accepts(node))}
    IN  IF ends = {} THEN Returned(<<None, None>>)
        ELSE LET i == CHOOSE i \in ends : \A j \in ends : i <= j
                 p == paths_to_try[i]
             IN  IF ~Node(files, Resolve(link, p)).listable THEN Raised
                 ELSE Returned(<<Resolve(link, p),
                                 SourceOf(link, p, configured_path)>>)

---------------------------------------------------------------------------
(* The text parser: _strip_code_fences, _try_parse_date, _parse_khal_output *)

\* A text is a sequence of characters, a line break being "\n".

DigitChars == {Alphabet[i] : i \in 9..18}
SepChars == {"/", ".", "-"}
SpaceChars == {" ", "\t", "\n"}
\* \w
WordChars == DigitChars \cup UpperLetters \cup LowerLetters \cup {"_"}

DigitVal(c) == CharCode(c) - 9

\* The length of the longest run of characters of chars in s from index i
RunIn(s, i, chars) ==
    LET stop == {k \in i..Len(s) : s[k] \notin chars}
    IN  IF i > Len(s) THEN 0
        ELSE IF stop = {} THEN Len(s) - i + 1
        ELSE (CHOOSE k \in stop : \A j \in stop : k <= j) - i

\* s from index i on
From(s, i) == SubSeq(s, i, Len(s))

\* The number written by the digits s[i..i+n-1]
RECURSIVE NumberAt(_, _, _)
NumberAt(s, i, n) ==
    IF n = 0 THEN 0
    ELSE 10 * NumberAt(s, i, n - 1) + DigitVal(s[i + n - 1])

\* Where the first match of ```[\w]*\n? at or behind index from starts
\* (0: nowhere), and the index behind a match that starts at i
FenceAt(text, from) ==
    LET at == {i \in from..(Len(text) - 2) :
                  text[i] = Grave /\ text[i + 1] = Grave /\ text[i + 2] = Grave}
    IN  IF at = {} THEN 0 ELSE CHOOSE i \in at : \A j \in at : i <= j

FenceEnd(text, i) ==
    LET j == i + 3 + RunIn(text, i + 3, WordChars)
    IN  IF j <= Len(text) /\ text[j] = "\n" THEN j + 1 ELSE j

\* re.sub(r'```[\w]*\n?', '', text) from index from on
RECURSIVE FencesRemoved(_, _)
FencesRemoved(text, from) ==
    LET i == FenceAt(text, from)
    IN  IF i = 0 THEN From(text, from)
        ELSE SubSeq(text, from, i - 1) \o FencesRemoved(text, FenceEnd(text, i))

_strip_code_fences(text) == Strip(FencesRemoved(text, 1))

\* text.split("\n") from index from on
RECURSIVE SplitLines(_, _)
SplitLines(text, from) ==
    LET nl == {i \in from..Len(text) : text[i] = "\n"}
    IN  IF nl = {} THEN <<From(text, from)>>
        ELSE LET i == CHOOSE i \in nl : \A j \in nl : i <= j
             IN  <<SubSeq(text, from, i - 1)>> \o SplitLines(text, i + 1)

\* The formats with the month-first slash format before the day-first one
DateFormats_MonthFirst ==
    << [fields |-> <<"Y", "m", "d">>, sep |-> "-"],
       [fields |-> <<"m", "d", "Y">>, sep |-> "/"],
       [fields |-> <<"d", "m", "Y">>, sep |-> "."],
       [fields |-> <<"d", "m", "Y">>, sep |-> "/"],
       [fields |-> <<"d", "m", "Y">>, sep |-> "-"] >>

\* The formats _try_parse_date tries, in its order: the order of the
\* fields and the separator
DateFormats ==
    << [fields |-> <<"Y", "m", "d">>, sep |-> "-"],
       [fields |-> <<"d", "m", "Y">>, sep |-> "/"],
       [fields |-> <<"d", "m", "Y">>, sep |-> "."],
       [fields |-> <<"m", "d", "Y">>, sep |-> "/"],
       [fields |-> <<"d", "m", "Y">>, sep |-> "-"] >>

\* Whether n digits of value v are what strptime takes for a field: %Y is
\* four digits, %m is 1..12 and %d is 1..31 in one or two digits
FieldTaken(field, n, v) ==
    CASE field = "Y" -> n = 4
      [] field = "m" -> n \in {1, 2} /\ v \in 1..12
      [] field = "d" -> n \in {1, 2} /\ v \in 1..31

\* The lengths of the three runs of digits of a text of the shape
\* digits, one character, digits, one character, digits
DigitGroups(s) ==
    LET n1 == RunIn(s, 1, DigitChars)
        n2 == RunIn(s, n1 + 2, DigitChars)
    IN  <<n1, n2, RunIn(s, n1 + n2 + 3, DigitChars)>>

\* strptime on a text whose runs of digits have the lengths n
StrpGroups(s, fmt, n) ==
    LET v == <<NumberAt(s, 1, n[1]), NumberAt(s, n[1] + 2, n[2]),
               NumberAt(s, n[1] + n[2] + 3, n[3])>>
        at(f) == CHOOSE k \in 1..3 : fmt.fields[k] = f
    IN  IF /\ Len(s) = n[1] + n[2] + n[3] + 2
           /\ s[n[1] + 1] = fmt.sep
           /\ s[n[1] + n[2] + 2] = fmt.sep
           /\ \A k \in 1..3 : FieldTaken(fmt.fields[k], n[k], v[k])
           /\ v[at("Y")] >= 1
           /\ v[at("d")] <= DaysInMonth(v[at("Y")], v[at("m")])
        THEN <<v[at("Y")], v[at("m")], v[at("d")]>>
        ELSE <<>>

\* datetime.strptime(s, fmt).strftime("%Y-%m-%d"): <<>> when strptime
\* raises ValueError, else the date <<y, m, d>>
StrpTime(s, fmt) == StrpGroups(s, fmt, DigitGroups(s))

\* The formats tried one after the other from the k-th on
RECURSIVE TryFormats(_, _)
TryFormats(s, k) ==
    IF k > Len(DateFormats) THEN <<>>
    ELSE IF StrpTime(s, DateFormats[k]) # <<>>
    THEN StrpTime(s, DateFormats[k])
    ELSE TryFormats(s, k + 1)

\* <<>> is None
_try_parse_date(s) == TryFormats(Strip(s), 1)

\* The words a date header begins with, matched whatever their case
HeaderWords ==
    << <<"t", "o", "d", "a", "y">>,
       <<"t", "o", "m", "o", "r", "r", "o", "w">>,
       <<"m", "o", "n", "d", "a", "y">>,
       <<"t", "u", "e", "s", "d", "a", "y">>,
       <<"w", "e", "d", "n", "e", "s", "d", "a", "y">>,
       <<"t", "h", "u", "r", "s", "d", "a", "y">>,
       <<"f", "r", "i", "d", "a", "y">>,
       <<"s", "a", "t", "u", "r", "d", "a", "y">>,
       <<"s", "u", "n", "d", "a", "y">> >>

Lower(s) == [i \in 1..Len(s) |-> ToLower(s[i])]

\* group(1) of the match of the date header pattern, <<>> when the line
\* does not match: a header word, an optional comma, whitespace, the rest
HeaderRest(line) ==
    LET words == {k \in 1..Len(HeaderWords) :
                     /\ Len(HeaderWords[k]) <= Len(line)
                     /\ Lower(SubSeq(line, 1, Len(HeaderWords[k])))
                          = HeaderWords[k]}
    IN  IF words = {} THEN <<>>
        ELSE LET n  == Len(HeaderWords[CHOOSE k \in words : TRUE])
                 c  == IF n < Len(line) /\ line[n + 1] = "," THEN 1 ELSE 0
                 ws == RunIn(line, n + c + 1, SpaceChars)
             IN  IF ws >= 1 /\ n + c + ws < Len(line)
                 THEN From(line, n + c + ws + 1)
                 ELSE <<>>

\* The length of the match of DATE_RE at the start of the line when
\* whitespace follows it, 0 without such a match: n is DigitGroups(line)
DateLenOf(line, n) ==
    IF /\ n[1] \in 1..4 /\ n[2] \in 1..2 /\ n[3] \in 2..4
       /\ line[n[1] + 1] \in SepChars
       /\ line[n[1] + n[2] + 2] \in SepChars
       /\ n[1] + n[2] + n[3] + 2 < Len(line)
       /\ line[n[1] + n[2] + n[3] + 3] \in SpaceChars
    THEN n[1] + n[2] + n[3] + 2 ELSE 0

DateLen(line) == DateLenOf(line, DigitGroups(line))

\* \d{2}:\d{2} at index i, and the text it matches as <<hours, minutes>>
IsTime(s, i) ==
    /\ i + 4 <= Len(s)
    /\ s[i] \in DigitChars /\ s[i + 1] \in DigitChars
    /\ s[i + 2] = ":"
    /\ s[i + 3] \in DigitChars /\ s[i + 4] \in DigitChars

TimeAt(s, i) == <<NumberAt(s, i, 2), NumberAt(s, i + 3, 2)>>

\* The dict of an event of the text parser
KhalDict(date, time, end, title, all_day) ==
    [date |-> date, time |-> time, end |-> end, title |-> title,
     location |-> "", calendar |-> "khal", all_day |-> all_day]

\* A time followed by whitespace at index i: the index behind the
\* whitespace, 0 without a match
BehindTime(s, i) ==
    IF IsTime(s, i) /\ RunIn(s, i + 5, SpaceChars) >= 1
    THEN i + 5 + RunIn(s, i + 5, SpaceChars)
    ELSE 0

\* The two optional times behind the date: t1 is the index behind the
\* first time and its whitespace, t2 that behind the second, 0 without
TimesBehind(line, p, t1) ==
    [p |-> p, t1 |-> t1, t2 |-> IF t1 = 0 THEN 0 ELSE BehindTime(line, t1)]

\* The event of a line with the date tried before DATE HH:MM HH:MM Title
\* is: DATE HH:MM Title, then DATE Title
DatedWith_NoEndFirst(line, date, at) ==
    IF at.t1 # 0 /\ at.t1 <= Len(line)
    THEN <<KhalDict(date, TimeAt(line, at.p), EmptyStr,
                    From(line, at.t1), FALSE)>>
    ELSE <<KhalDict(date, AllDay, EmptyStr, From(line, at.p), TRUE)>>

\* The event of a line that begins with the date date, by the first of
\* DATE HH:MM HH:MM Title, DATE HH:MM Title, DATE Title: at.p is the index
\* behind the date and its whitespace
DatedWith(line, date, at) ==
    IF at.t2 # 0 /\ at.t2 <= Len(line)
    THEN <<KhalDict(date, TimeAt(line, at.p), TimeAt(line, at.t1),
                    From(line, at.t2), FALSE)>>
    ELSE IF at.t1 # 0 /\ at.t1 <= Len(line)
    THEN <<KhalDict(date, TimeAt(line, at.p), EmptyStr,
                    From(line, at.t1), FALSE)>>
    ELSE <<KhalDict(date, AllDay, EmptyStr, From(line, at.p), TRUE)>>

\* The line whose match of DATE_RE has the length L and the value date
DatedFrom(line, L, date, p) ==
    IF L = 0 \/ date = <<>> THEN <<>>
    ELSE DatedWith(line, date, TimesBehind(line, p, BehindTime(line, p)))

\* The grammars with a date of their own: <<>> when none gives an event
DatedAt(line, L) ==
    DatedFrom(line, L, _try_parse_date(SubSeq(line, 1, L)),
              L + RunIn(line, L + 1, SpaceChars) + 1)

DatedEvent(line) == DatedAt(line, DateLen(line))

\* The lines without a date of their own taken whether or not a header has
\* set a date
UndatedEvent_NoDateNeeded(line, current_date) ==
    LET r  == RunIn(line, 6, SpaceChars \cup {"-"})
        t2 == IF IsTime(line, 1) /\ r >= 1 THEN BehindTime(line, 6 + r)
              ELSE 0
    IN  IF t2 # 0 /\ t2 <= Len(line)
        THEN <<KhalDict(current_date, TimeAt(line, 1), TimeAt(line, 6 + r),
                        From(line, t2), FALSE)>>
        ELSE IF line[1] \notin DigitChars
        THEN <<KhalDict(current_date, AllDay, EmptyStr, line, TRUE)>>
        ELSE <<>>

\* The lines under a date header: HH:MM-HH:MM Title or HH:MM HH:MM Title,
\* and a line that does not begin with a digit
UndatedEvent(line, current_date) ==
    LET r  == RunIn(line, 6, SpaceChars \cup {"-"})
        t2 == IF IsTime(line, 1) /\ r >= 1 THEN BehindTime(line, 6 + r)
              ELSE 0
    IN  IF current_date = <<>> THEN <<>>
        ELSE IF t2 # 0 /\ t2 <= Len(line)
        THEN <<KhalDict(current_date, TimeAt(line, 1), TimeAt(line, 6 + r),
                        From(line, t2), FALSE)>>
        ELSE IF line[1] \notin DigitChars
        THEN <<KhalDict(current_date, AllDay, EmptyStr, line, TRUE)>>
        ELSE <<>>

\* A header line whose rest parsed as parsed, with the date set only
\* while none is set
HeaderStep_FirstOnly(st, parsed) ==
    IF st.current_date = <<>> THEN [st EXCEPT !.current_date = parsed]
    ELSE st

\* The date in force forgotten at a header whose rest does not parse
HeaderStep_Forgets(st, parsed) == [st EXCEPT !.current_date = parsed]

\* A header line whose rest parsed as parsed (<<>> is None)
HeaderStep(st, parsed) ==
    IF parsed # <<>> THEN [st EXCEPT !.current_date = parsed] ELSE st

\* A line that is no header: dated is what the grammars with a date give
EventStep(st, line, dated) ==
    IF dated # <<>> THEN [st EXCEPT !.events = @ \o dated]
    ELSE [st EXCEPT !.events = @ \o UndatedEvent(line, st.current_date)]

\* A line that is neither blank nor a comment: header is HeaderRest(line)
SolidLineStep(st, line, header) ==
    IF header # <<>> THEN HeaderStep(st, _try_parse_date(Strip(header)))
    ELSE EventStep(st, line, DatedEvent(line))

StrippedLineStep(st, line) ==
    IF line = <<>> THEN st
    ELSE IF line[1] = "#" THEN st
    ELSE SolidLineStep(st, line, HeaderRest(line))

\* The body of "for line in ...": st is [events, current_date]
LineStep(st, raw) == StrippedLineStep(st, Strip(raw))

\* The loop over the lines from the k-th on
RECURSIVE ParseLines(_, _, _)
ParseLines(lines, k, st) ==
    IF k > Len(lines) THEN st
    ELSE LET next == LineStep(st, lines[k])
         IN  IF Len(next.events) < Len(st.events) THEN st
             ELSE ParseLines(lines, k + 1, next)

\* What the loop of _parse_khal_output ends with: [events, current_date]
ParseState(content) ==
    ParseLines(SplitLines(Strip(_strip_code_fences(content)), 1), 1,
               [events |-> <<>>, current_date |-> <<>>])

_parse_khal_output(content) == ParseState(content).events

---------------------------------------------------------------------------
(* collector.py: its own _strip_code_fences, _try_parse_date and            *)
(* _parse_khal_output, on the matchers of re and strptime above             *)

collector_strip_code_fences(text) == Strip(FencesRemoved(text, 1))

\* The formats with the month-first slash format before the day-first one
collector_DateFormats_MonthFirst ==
    << [fields |-> <<"Y", "m", "d">>, sep |-> "-"],
       [fields |-> <<"m", "d", "Y">>, sep |-> "/"],
       [fields |-> <<"d", "m", "Y">>, sep |-> "."],
       [fields |-> <<"d", "m", "Y">>, sep |-> "/"],
       [fields |-> <<"d", "m", "Y">>, sep |-> "-"] >>

\* "%Y-%m-%d", "%d/%m/%Y", "%d.%m.%Y", "%m/%d/%Y", "%d-%m-%Y"
collector_DateFormats ==
    << [fields |-> <<"Y", "m", "d">>, sep |-> "-"],
       [fields |-> <<"d", "m", "Y">>, sep |-> "/"],
       [fields |-> <<"d", "m", "Y">>, sep |-> "."],
       [fields |-> <<"m", "d", "Y">>, sep |-> "/"],
       [fields |-> <<"d", "m", "Y">>, sep |-> "-"] >>

RECURSIVE collector_TryFormats(_, _)
collector_TryFormats(s, k) ==
    IF k > Len(collector_DateFormats) THEN <<>>
    ELSE IF StrpTime(s, collector_DateFormats[k]) # <<>>
    THEN StrpTime(s, collector_DateFormats[k])
    ELSE collector_TryFormats(s, k + 1)

collector_try_parse_date(s) == collector_TryFormats(Strip(s), 1)

\* The dict of an event of collector's parser
collector_KhalDict(date, time, end, title, all_day) ==
    [date |-> date, time |-> time, end |-> end, title |-> title,
     location |-> "", calendar |-> "khal", all_day |-> all_day]

\* m, m2 and m3 on a line that begins with the date date
collector_DatedWith(line, date, at) ==
    IF at.t2 # 0 /\ at.t2 <= Len(line)
    THEN <<collector_KhalDict(date, TimeAt(line, at.p), TimeAt(line, at.t1),
                              From(line, at.t2), FALSE)>>
    ELSE IF at.t1 # 0 /\ at.t1 <= Len(line)
    THEN <<collector_KhalDict(date, TimeAt(line, at.p), EmptyStr,
                              From(line, at.t1), FALSE)>>
    ELSE <<collector_KhalDict(date, AllDay, EmptyStr, From(line, at.p),
                              TRUE)>>

collector_DatedFrom(line, L, date, p) ==
    IF L = 0 \/ date = <<>> THEN <<>>
    ELSE collector_DatedWith(line, date,
                             TimesBehind(line, p, BehindTime(line, p)))

collector_DatedAt(line, L) ==
    collector_DatedFrom(line, L, collector_try_parse_date(SubSeq(line, 1, L)),
                        L + RunIn(line, L + 1, SpaceChars) + 1)

collector_DatedEvent(line) == collector_DatedAt(line, DateLen(line))

\* "if current_date:" with m4 and the all-day event under a header
collector_UndatedEvent(line, current_date) ==
    LET r  == RunIn(line, 6, SpaceChars \cup {"-"})
        t2 == IF IsTime(line, 1) /\ r >= 1 THEN BehindTime(line, 6 + r)
              ELSE 0
    IN  IF current_date = <<>> THEN <<>>
        ELSE IF t2 # 0 /\ t2 <= Len(line)
        THEN <<collector_KhalDict(current_date, TimeAt(line, 1),
                                  TimeAt(line, 6 + r), From(line, t2),
                                  FALSE)>>
        ELSE IF line[1] \notin DigitChars
        THEN <<collector_KhalDict(current_date, AllDay, EmptyStr, line,
                                  TRUE)>>
        ELSE <<>>

collector_HeaderStep(st, parsed) ==
    IF parsed # <<>> THEN [st EXCEPT !.current_date = parsed] ELSE st

collector_EventStep(st, line, dated) ==
    IF dated # <<>> THEN [st EXCEPT !.events = @ \o dated]
    ELSE [st EXCEPT !.events =
              @ \o collector_UndatedEvent(line, st.current_date)]

collector_SolidLineStep(st, line, header) ==
    IF header # <<>>
    THEN collector_HeaderStep(st, collector_try_parse_date(Strip(header)))
    ELSE collector_EventStep(st, line, collector_DatedEvent(line))

collector_StrippedLineStep(st, line) ==
    IF line = <<>> THEN st
    ELSE IF line[1] = "#" THEN st
    ELSE collector_SolidLineStep(st, line, HeaderRest(line))

collector_LineStep(st, raw) == collector_StrippedLineStep(st, Strip(raw))

RECURSIVE collector_ParseLines(_, _, _)
collector_ParseLines(lines, k, st) ==
    IF k > Len(lines) THEN st
    ELSE collector_ParseLines(lines, k + 1, collector_LineStep(st, lines[k]))

collector_ParseState(content) ==
    collector_ParseLines(
        SplitLines(Strip(collector_strip_code_fences(content)), 1), 1,
        [events |-> <<>>, current_date |-> <<>>])

collector_parse_khal_output(content) == collector_ParseState(content).events

---------------------------------------------------------------------------
(* The events request: app.get_calendar_events, collector.get_calendar_events *)

DaysCap == 90
CollectorDays == 7
CollectorShown == 15
GatewayMaxEvents == 50

Min(a, b) == IF a < b THEN a ELSE b

Range(s) == {s[i] : i \in 1..Len(s)}

\* _calendar_via_gateway: config.gateway says whether a gateway URL and
\* token are set; reply is what the POST comes back with, its status and
\* the content of its first choice.  [events, posted]
_calendar_via_gateway(config, reply) ==
    IF ~config.gateway THEN [events |-> <<>>, posted |-> FALSE]
    ELSE [posted |-> TRUE,
          events |-> IF reply.status # 200 THEN <<>>
                     ELSE IF reply.content = <<>> THEN <<>>
                     ELSE Prefix(_parse_khal_output(reply.content),
                                 GatewayMaxEvents)]

\* "cal_ids = enabled if enabled else None"
CalIds(enabled) == IF enabled # <<>> THEN Ids(Range(enabled)) ELSE NoneIds

\* The gateway asked whatever the files gave
UseGateway_Always(found, aggregated) == TRUE

\* Whether the handler goes on to the gateway: found is what
\* find_calendar_path returned, aggregated what read_calendar_events did
UseGateway(found, aggregated) ==
    found.value[1] = None \/ aggregated.value = <<>>

\* What the handler hands out of a non-empty list of events
Shown(handler, events) ==
    IF handler = "collector" THEN Prefix(events, CollectorShown) ELSE events

\* One run of a handler, as the record of its locals when it ends: log
\* lists the calls made in their order, failed says an exception left the
\* handler, response is the events handed out and their source.
get_calendar_events(handler, files, link, now, config, days, reply) ==
    LET found == find_calendar_path(files, link, config.calendar_path)
        resolved_path == IF found.raised THEN None ELSE found.value[1]
        aggregated ==
            IF resolved_path = None THEN Returned(<<>>)
            ELSE read_calendar_events(files, now, resolved_path,
                                      CalIds(config.enabled_calendars), days)
        gw == _calendar_via_gateway(config, reply)
        base == [handler |-> handler, pc |-> "done", days |-> days,
                 resolved_path |-> resolved_path,
                 aggregated |-> aggregated.value,
                 log |-> <<"find_calendar_path">>,
                 response |-> [events |-> <<>>, source |-> "none"]]
    IN  IF found.raised THEN [base EXCEPT !.pc = "failed"]
        ELSE IF resolved_path # None /\ aggregated.raised
        THEN [base EXCEPT !.pc = "failed",
                          !.log = @ \o <<"read_calendar_events">>]
        ELSE
        LET read == IF resolved_path # None
                    THEN <<"read_calendar_events">> ELSE <<>>
        IN  IF ~UseGateway(found, aggregated)
            THEN [base EXCEPT
                    !.log = @ \o read,
                    !.response = [events |-> Shown(handler, aggregated.value),
                                  source |-> "ics"]]
            ELSE [base EXCEPT
                    !.log = @ \o read \o <<"_calendar_via_gateway">>
                              \o (IF gw.posted THEN <<"POST">> ELSE <<>>),
                    !.response =
                        [events |-> Shown(handler, gw.events),
                         source |-> IF gw.events # <<>> THEN "gateway"
                                    ELSE "none"]]

---------------------------------------------------------------------------
(* app.py: the stored files, require_api_key and the endpoints that write   *)

\* A stored file is <<>> when DATA_DIR has no such file and <<content>>
\* when it has; a dict is a function from its keys.

EmptyDict == [k \in {} |-> 0]

\* d.get(k, default)
DictGet(d, k, default) == IF k \in DOMAIN d THEN d[k] ELSE default

\* d[k] = v
DictSet(d, k, v) ==
    [x \in DOMAIN d \cup {k} |-> IF x = k THEN v ELSE d[x]]

_read_json(store, name, default) ==
    IF store[name] = <<>> THEN default ELSE store[name][1]

_write_json(store, name, content) == [store EXCEPT ![name] = <<content>>]

\* What _get_config takes from config.json for the calendar
_get_config(store) ==
    [calendar_path |->
        DictGet(_read_json(store, "config.json", EmptyDict),
                "calendar_path", "/calendars")]

\* Whether require_api_key lets the request through to the handler
require_api_key(api_key, auth) ==
    IF api_key # "" THEN auth = "Bearer " \o api_key ELSE TRUE

Unauthorized == [status |-> 401, body |-> "Unauthorized"]

\* The result of a handler: the response and the stored files it leaves
Response(status, body, store) ==
    [status |-> status, body |-> body, store |-> store]

\* add_goal up to its call of _read_json: the dict read
add_goal_read(store) == _read_json(store, "goals.json", [goals |-> <<>>])

\* add_goal from there on: read is the dict read, goal the goal made
add_goal_write(store, read, goal) ==
    Response(201, goal,
            _write_json(store, "goals.json",
                DictSet(read, "goals",
                        Append(DictGet(read, "goals", <<>>), goal))))

\* POST /api/goals with its decorator
add_goal(api_key, auth, store, goal) ==
    IF ~require_api_key(api_key, auth)
    THEN Response(401, Unauthorized.body, store)
    ELSE add_goal_write(store, add_goal_read(store), goal)

\* DELETE /api/chat/history with its decorator
clear_chat_history(api_key, auth, store) ==
    IF ~require_api_key(api_key, auth)
    THEN Response(401, Unauthorized.body, store)
    ELSE Response(200, "cleared",
                 _write_json(store, "chat_history.json",
                             [messages |-> <<>>]))

\* The resolved root saved whenever it is not the configured path as written
discover_resolved_AnySource(store, configured_path, found, listed) ==
    IF listed.raised THEN [status |-> 500, body |-> "error", store |-> store]
    ELSE [status |-> 200,
          body |-> [calendars |-> listed.value,
                    calendar_path |-> found.value[1],
                    source |-> found.value[2],
                    found |-> Len(listed.value) > 0],
          store |-> IF found.value[1] # configured_path
                    THEN [store EXCEPT !["config.json"] =
                            <<[x \in DOMAIN (IF store["config.json"] = <<>>
                                             THEN [k \in {} |-> 0]
                                             ELSE store["config.json"][1])
                                       \cup {"calendar_path"} |->
                                 IF x = "calendar_path" THEN found.value[1]
                                 ELSE store["config.json"][1][x]]>>]
                    ELSE store]

\* The branch of the discover endpoint with a resolved root: found is
\* what find_calendar_path returned, listed what discover_calendars did
discover_resolved(store, configured_path, found, listed) ==
    IF listed.raised THEN Response(500, "error", store)
    ELSE Response(200,
                 [calendars |-> listed.value,
                  calendar_path |-> found.value[1],
                  source |-> found.value[2],
                  found |-> Len(listed.value) > 0],
                 IF /\ found.value[2] = "auto-detected"
                    /\ found.value[1] # configured_path
                 THEN _write_json(store, "config.json",
                          DictSet(_read_json(store, "config.json", EmptyDict),
                                  "calendar_path", found.value[1]))
                 ELSE store)

\* The branches without one: gw_calendars is what the gateway listed
discover_unresolved(store, configured_path, gw_calendars) ==
    IF gw_calendars # <<>>
    THEN Response(200,
                 [calendars |-> gw_calendars, calendar_path |-> "gateway",
                  source |-> "gateway", found |-> TRUE], store)
    ELSE Response(200,
                 [calendars |-> <<>>, calendar_path |-> configured_path,
                  source |-> "none", found |-> FALSE], store)

discover_found(files, store, configured_path, found, gw_calendars) ==
    IF found.raised THEN Response(500, "error", store)
    ELSE IF found.value[1] # None
    THEN discover_resolved(store, configured_path, found,
                           discover_calendars(files, found.value[1]))
    ELSE discover_unresolved(store, configured_path, gw_calendars)

discover_configured(files, link, store, configured_path, gw_calendars) ==
    discover_found(files, store, configured_path,
                   find_calendar_path(files, link, configured_path),
                   gw_calendars)

\* GET /api/calendars/discover: the route has no decorator
app_discover_calendars(files, link, store, gw_calendars) ==
    discover_configured(files, link, store,
                        _get_config(store).calendar_path, gw_calendars)

\* What get_settings does to the stored files: identity_name is the name
\* read_identity found, "" when it found none
get_settings_stored(store, stored, identity_name) ==
    IF DictGet(stored, "bot_name", "") = "" /\ identity_name # ""
    THEN _write_json(store, "config.json",
                     DictSet(stored, "bot_name", identity_name))
    ELSE store

\* GET /api/settings: the route has no decorator
get_settings(store, identity_name) ==
    Response(200, "settings",
            get_settings_stored(store,
                _read_json(store, "config.json", EmptyDict), identity_name))

---------------------------------------------------------------------------
(* The calendar files of the model *)

NoRule == [has |-> FALSE, valid |-> TRUE, step |-> 0, count |-> 0]
Rule(step, count) == [has |-> TRUE, valid |-> TRUE, step |-> step, count |-> count]
\* A rule rrulestr rejects
BadRule == [has |-> TRUE, valid |-> FALSE, step |-> MinutesPerDay, count |-> 0]

VEvent(summary, dtstart, dtend, rrule) ==
    [name |-> "VEVENT", summary |-> summary, location |-> "Room",
     dtstart |-> dtstart, dtend |-> dtend, rrule |-> rrule]

\* The days a definition of the model starts on
StartDays == (TodayIndex - MaxBack)..(TodayIndex + MaxDays + 1)

\* 00:00, 09:00 and 23:30
StartMinutes == {0, 9 * 60, 23 * 60 + 30}

Starts ==
    {DT("date", FALSE, MidnightOf(d)) : d \in StartDays}
    \cup {DT("datetime", FALSE, MidnightOf(d) + m) :
             d \in StartDays, m \in StartMinutes}
    \cup {DT("datetime", TRUE, MidnightOf(d) + 9 * 60) : d \in StartDays}

\* The DTEND values of a definition starting at s: none; a datetime half an
\* hour or two days later, of the same and of the other awareness; a date
\* one and two days later.
Ends(s) ==
    {NoDT}
    \cup {DT("datetime", s.aware, s.t + 30),
          DT("datetime", s.aware, s.t + 2 * MinutesPerDay),
          DT("datetime", ~s.aware, s.t + 30)}
    \cup {DT("date", FALSE, MidnightOf(s.t \div MinutesPerDay + k)) :
             k \in {1, 2}}

\* No rule; every half hour and every day, unbounded and with COUNT=3; a
\* rule that does not parse
Rules ==
    {NoRule, BadRule}
    \cup {Rule(step, count) : step \in {30, MinutesPerDay}, count \in {0, 3}}

Components ==
    UNION {{VEvent("Standup", s, e, r) : e \in Ends(s), r \in Rules} :
              s \in Starts}
    \cup {VEvent("Standup", s, NoDT, r) :
             s \in {NoDT, DT("other", FALSE, 0)}, r \in {NoRule, Rule(30, 0)}}
    \cup {[VEvent("Standup", DT("date", FALSE, MidnightOf(TodayIndex)),
                  NoDT, NoRule) EXCEPT !.name = "VTODO"]}

NoDisplayName == [exists |-> FALSE, readable |-> FALSE, text |-> <<>>]

IcsFile(components) ==
    [ext |-> "ics", readable |-> TRUE, components |-> components]

\* A collection directory: its name, its displayname and color files, and
\* its other files
CollectionWith(name, displayname, color, files) ==
    [name |-> name, isDir |-> TRUE, displayname |-> displayname,
     color |-> color, files |-> files]

Collection(name, displayname, files) ==
    CollectionWith(name, displayname, NoDisplayName, files)

Dir(entries) == [kind |-> "dir", listable |-> TRUE, entries |-> entries]

\* The definitions the roots with two definitions are made of: an all-day
\* and two timed events today, an all-day event tomorrow, an event running
\* over midnight into today, and three recurring ones.
PairComponents ==
    LET t0 == MidnightOf(TodayIndex)
    IN  { VEvent("Standup", DT("date", FALSE, t0), NoDT, NoRule),
          VEvent("Standup", DT("datetime", FALSE, t0), NoDT, NoRule),
          VEvent("Standup", DT("datetime", FALSE, t0 + 9 * 60), NoDT, NoRule),
          VEvent("Standup", DT("date", FALSE, t0 + MinutesPerDay), NoDT, NoRule),
          VEvent("Standup", DT("datetime", FALSE, t0 - 30), NoDT, NoRule),
          VEvent("Standup", DT("datetime", FALSE, t0), NoDT, Rule(30, 0)),
          VEvent("Standup", DT("datetime", FALSE, t0 - 15 * 60), NoDT, Rule(30, 0)),
          VEvent("Standup", DT("date", FALSE, t0 - 2 * MinutesPerDay), NoDT,
                 Rule(MinutesPerDay, 0)) }

\* The roots of the model: one collection "w" holding one file with one
\* definition; one file with two definitions; two collections with one
\* definition each.
IcsRoots ==
    {<<Collection(<<"w">>, NoDisplayName, <<IcsFile(<<c>>)>>)>> :
        c \in Components}
    \cup {<<Collection(<<"w">>, NoDisplayName,
              <<IcsFile(<<c1, [c2 EXCEPT !.summary = "Dentist"]>>)>>)>> :
            c1 \in PairComponents, c2 \in PairComponents}
    \cup {<<Collection(<<"w">>, NoDisplayName, <<IcsFile(<<c1>>)>>),
            Collection(<<"a", "_", "b">>, NoDisplayName,
               <<IcsFile(<<[c2 EXCEPT !.summary = "Dentist"]>>)>>)>> :
            c1 \in PairComponents, c2 \in PairComponents}

CalendarsPath == "/calendars"

\* The days_ahead of the model's requests: the request's value is capped
\* from above only, so it may be negative.
DaysChoices == (0 - 1)..MaxDays

---------------------------------------------------------------------------
(* Direct calls of ics_reader *)

NoCall == [op |-> "none"]
NoRet == [raised |-> FALSE, value |-> <<>>]

\* config.json with no calendar settings saved and no gateway configured;
\* no events request being served
IdleCfg ==
    [calendar_path |-> CalendarsPath, enabled_calendars |-> <<>>,
     gateway |-> FALSE]

\* DATA_DIR where no request reads or writes it
NoData == <<>>

NoReq ==
    [handler |-> "none", pc |-> "idle", days |-> 0, resolved_path |-> None,
     aggregated |-> <<>>, log |-> <<>>,
     response |-> [events |-> <<>>, source |-> "none"]]

InitIcs ==
    /\ fs \in {[p \in {CalendarsPath} |-> Dir(root)] : root \in IcsRoots}
    /\ openclaw = "/root"
    /\ today = TodayIndex
    /\ call = NoCall
    /\ ret = NoRet
    /\ cfg = IdleCfg
    /\ req = NoReq
    /\ data = NoData

CallReadCalendarEvents ==
    /\ call.op = "none"
    /\ \E days_ahead \in DaysChoices :
          /\ call' = [op |-> "read_calendar_events",
                      base_path |-> CalendarsPath,
                      calendar_ids |-> NoneIds,
                      days_ahead |-> days_ahead]
          /\ ret' = read_calendar_events(fs, MidnightOf(today), CalendarsPath,
                                         NoneIds, days_ahead)
    /\ UNCHANGED <<fs, openclaw, today, cfg, req, data>>

NextIcs == CallReadCalendarEvents

SpecIcs == InitIcs /\ [][NextIcs]_vars

---------------------------------------------------------------------------
(* Direct calls of find_calendar_path *)

FileNode == [kind |-> "file", listable |-> FALSE, entries |-> <<>>]

\* A directory iterdir() fails on, whatever it holds
Unlistable(entries) == [kind |-> "dir", listable |-> FALSE, entries |-> entries]

PlainFile(name) ==
    [name |-> name, isDir |-> FALSE, displayname |-> NoDisplayName,
     color |-> NoDisplayName, files |-> <<>>]

TxtFile == [ext |-> "txt", readable |-> TRUE, components |-> <<>>]

\* A regular file and a subdirectory holding a .txt file only
NoIcsEntries ==
    << PlainFile(<<"x">>),
       Collection(<<"n">>, NoDisplayName, <<TxtFile>>) >>

\* A regular file, then a subdirectory holding an .ics file with no
\* components
OneCalendar ==
    << PlainFile(<<"x">>),
       Collection(<<"w">>, NoDisplayName, <<TxtFile, IcsFile(<<>>)>>) >>

PathNodes ==
    { Missing, FileNode, Dir(<<>>), Dir(NoIcsEntries), Dir(OneCalendar),
      Unlistable(<<>>), Unlistable(OneCalendar) }

\* The directories the candidates of the model resolve to
PathDirs ==
    { "/calendars", "/root" \o VdirCalendars, "/mnt" \o VdirCalendars,
      "/data/cal" }

\* The configured paths of the model: none, empty, the first fallback as
\* written and with a trailing slash, the third fallback, a path that is no
\* fallback
ConfiguredPaths ==
    { None, "", "/calendars", "/calendars/", _FALLBACK_PATHS[3], "/data/cal" }

InitPath ==
    /\ fs \in [PathDirs -> PathNodes]
    /\ openclaw \in {"/root", "/mnt"}
    /\ today = TodayIndex
    /\ call = NoCall
    /\ ret = NoRet
    /\ cfg = IdleCfg
    /\ req = NoReq
    /\ data = NoData

CallFindCalendarPath ==
    /\ call.op = "none"
    /\ \E configured_path \in ConfiguredPaths :
          /\ call' = [op |-> "find_calendar_path",
                      configured_path |-> configured_path]
          /\ ret' = find_calendar_path(fs, openclaw, configured_path)
    /\ UNCHANGED <<fs, openclaw, today, cfg, req, data>>

NextPath == CallFindCalendarPath

SpecPath == InitPath /\ [][NextPath]_vars

---------------------------------------------------------------------------
(* Events requests *)

\* The roots of the requests: one event today; one event forty days on; a
\* definition recurring every half hour from today 00:00; an event today in
\* each of two collections.
FlowRoots ==
    LET t0 == MidnightOf(TodayIndex)
        one(name, c) == Collection(name, NoDisplayName, <<IcsFile(<<c>>)>>)
    IN  { <<one(<<"w">>, VEvent("Standup", DT("datetime", FALSE, t0 + 9 * 60),
                                NoDT, NoRule))>>,
          <<one(<<"w">>, VEvent("Standup",
                                DT("date", FALSE, t0 + 40 * MinutesPerDay),
                                NoDT, NoRule))>>,
          <<one(<<"w">>, VEvent("Standup", DT("datetime", FALSE, t0),
                                NoDT, Rule(30, 0)))>>,
          <<one(<<"w">>, VEvent("Standup", DT("date", FALSE, t0),
                                NoDT, NoRule)),
            one(<<"a", "_", "b">>,
                VEvent("Dentist", DT("datetime", FALSE, t0 + 9 * 60),
                       NoDT, NoRule))>> }

\* The third fallback, when it is there, holds one event tomorrow
HomeRoot ==
    <<Collection(<<"h">>, NoDisplayName,
         <<IcsFile(<<VEvent("Lunch",
                            DT("datetime", FALSE,
                               MidnightOf(TodayIndex + 1) + 9 * 60),
                            NoDT, NoRule)>>)>>)>>

FlowFs ==
    {[p \in {CalendarsPath, _FALLBACK_PATHS[3]} |->
         IF p = CalendarsPath THEN c ELSE h] :
       c \in {Missing, Dir(NoIcsEntries), Unlistable(<<>>)}
                \cup {Dir(root) : root \in FlowRoots},
       h \in {Missing, Dir(HomeRoot)}}

FlowCfgs ==
    [calendar_path : {"", CalendarsPath, "/data/cal"},
     enabled_calendars : {<<>>, << <<"w">> >>, << <<"z">> >>},
     gateway : BOOLEAN]

\* A text of a date header and n lines under it, each a title
TitlesText(n) ==
    <<"T", "o", "d", "a", "y", ",", " ", "2", "0", "2", "5", "-", "1", "2",
      "-", "3", "1", "\n">>
    \o FlattenSeq([k \in 1..n |-> <<"x", "\n">>])

\* What the gateway answers: an error status; an empty content; a content
\* of 1, of 16 and of 51 event lines
GatewayReplies ==
    {[status |-> 500, content |-> <<>>],
     [status |-> 200, content |-> <<>>]}
    \cup {[status |-> 200, content |-> TitlesText(n)] : n \in {1, 16, 51}}

\* The "days" of a request to /api/calendars/events: the default and a
\* value above the cap
RequestDays == {7, 100}

InitFlow ==
    /\ fs \in FlowFs
    /\ openclaw = "/root"
    /\ today = TodayIndex
    /\ call = NoCall
    /\ ret = NoRet
    /\ cfg \in FlowCfgs
    /\ req = NoReq
    /\ data = NoData

\* GET /api/calendars/events
AppGetCalendarEvents ==
    /\ req.pc = "idle"
    /\ \E days \in RequestDays, reply \in GatewayReplies :
          req' = get_calendar_events("app", fs, openclaw, MidnightOf(today),
                                     cfg, Min(days, DaysCap), reply)
    /\ UNCHANGED <<fs, openclaw, today, call, ret, cfg, data>>

\* The collector's calendar collection
CollectorGetCalendarEvents ==
    /\ req.pc = "idle"
    /\ \E reply \in GatewayReplies :
          req' = get_calendar_events("collector", fs, openclaw,
                                     MidnightOf(today), cfg, CollectorDays,
                                     reply)
    /\ UNCHANGED <<fs, openclaw, today, call, ret, cfg, data>>

NextFlow == AppGetCalendarEvents \/ CollectorGetCalendarEvents

SpecFlow == InitFlow /\ [][NextFlow]_vars

---------------------------------------------------------------------------
(* The debug request next to the events requests *)

\* One run of GET /api/calendars/debug, as the record of its locals when it
\* ends: debug is the dict handed out, whose gateway keys depend on the
\* configuration and on the status of the reply
calendar_debug(files, link, config, reply) ==
    LET found == find_calendar_path(files, link, config.calendar_path)
        debug == [configured_path |-> config.calendar_path,
                  enabled_calendars |-> config.enabled_calendars,
                  ics_resolved_path |-> found.value[1],
                  ics_source |-> found.value[2],
                  has_token |-> config.gateway]
    IN  IF found.raised
        THEN [handler |-> "debug", pc |-> "failed",
              log |-> <<"find_calendar_path">>, debug |-> <<>>]
        ELSE IF ~config.gateway
        THEN [handler |-> "debug", pc |-> "done",
              log |-> <<"find_calendar_path">>,
              debug |-> debug @@ [gateway_error |-> "not configured"]]
        ELSE IF reply.status # 200
        THEN [handler |-> "debug", pc |-> "done",
              log |-> <<"find_calendar_path", "POST">>,
              debug |-> debug @@ [gateway_status |-> reply.status,
                                  gateway_error |-> "resp.text"]]
        ELSE [handler |-> "debug", pc |-> "done",
              log |-> <<"find_calendar_path", "POST">>,
              debug |-> debug @@
                  [gateway_status |-> reply.status,
                   gateway_raw_content |-> reply.content,
                   gateway_parsed_events |->
                       _parse_khal_output(reply.content)]]

\* GET /api/calendars/debug
CalendarDebug ==
    /\ req.pc = "idle"
    /\ \E reply \in GatewayReplies :
          req' = calendar_debug(fs, openclaw, cfg, reply)
    /\ UNCHANGED <<fs, openclaw, today, call, ret, cfg, data>>

NextDebug ==
    AppGetCalendarEvents \/ CollectorGetCalendarEvents \/ CalendarDebug

SpecDebug == InitFlow /\ [][NextDebug]_vars

---------------------------------------------------------------------------
(* Direct calls of read_calendar_events and discover_calendars on roots     *)
(* with displayname files, selectors and items that cannot be parsed        *)

\* Definitions that parse: an event today at 09:00, and one recurring every
\* half hour from today 00:00
GoodDefs ==
    { VEvent("Standup", DT("datetime", FALSE, MidnightOf(TodayIndex) + 9 * 60),
             NoDT, NoRule),
      VEvent("Sprint", DT("datetime", FALSE, MidnightOf(TodayIndex)),
             NoDT, Rule(30, 0)) }

\* Definitions that do not: no DTSTART, and a DTSTART that is no date or
\* datetime, without and with a rule
BadDefs ==
    { VEvent("Broken", NoDT, NoDT, NoRule),
      VEvent("Broken", DT("other", FALSE, 0), NoDT, NoRule),
      VEvent("Broken", DT("other", FALSE, 0), NoDT, Rule(30, 0)) }

\* An .ics file open() or Calendar.from_ical raises on
UnreadableFile(components) ==
    [ext |-> "ics", readable |-> FALSE, components |-> components]

\* The files of the collection "w"
ReadFileLists ==
    {<<IcsFile(<<g>>)>> : g \in GoodDefs}
    \cup UNION {{<<IcsFile(<<b, g>>)>>, <<IcsFile(<<g, b>>)>>,
                 <<IcsFile(<<g, b, g>>)>>} :
                    b \in BadDefs, g \in GoodDefs}
    \cup UNION {{<<UnreadableFile(<<g>>), IcsFile(<<g>>)>>,
                 <<IcsFile(<<g>>), UnreadableFile(<<g>>)>>,
                 <<UnreadableFile(<<g>>)>>} : g \in GoodDefs}
    \cup {<<TxtFile>>}

\* A metadata file (displayname, color) with the text it holds
TextFile(text) == [exists |-> TRUE, readable |-> TRUE, text |-> text]
UnreadableTextFile == [exists |-> TRUE, readable |-> FALSE, text |-> <<>>]

\* No displayname file; one that cannot be read; an empty one; one of
\* blanks; one holding " Work "
DisplayNames ==
    { NoDisplayName, UnreadableTextFile, TextFile(<<>>), TextFile(<<" ">>),
      TextFile(<<" ", "W", "o", "r", "k", " ">>) }

\* The roots: the collection "w" and the collection "a_b", listed by
\* iterdir() in either order
ReadRoots ==
    UNION {{<<w, a>>, <<a, w>>} :
        w \in {CollectionWith(<<"w">>, dn, NoDisplayName, files) :
                  dn \in DisplayNames, files \in ReadFileLists},
        a \in {CollectionWith(<<"a", "_", "b">>, NoDisplayName, color,
                  <<IcsFile(<<VEvent("Dentist",
                        DT("date", FALSE, MidnightOf(TodayIndex)),
                        NoDT, NoRule)>>)>>) :
                  color \in {NoDisplayName, TextFile(<<"b">>)}}}

\* The selectors of the model
Selectors ==
    {NoneIds}
    \cup {Ids(l) : l \in SUBSET {<<"w">>, <<"a", "_", "b">>}}
    \cup {Ids({<<"z">>})}

InitRead ==
    /\ fs \in {[p \in {CalendarsPath} |-> node] :
                  node \in {Missing, FileNode, Unlistable(<<>>)}
                              \cup {Dir(root) : root \in ReadRoots}}
    /\ openclaw = "/root"
    /\ today = TodayIndex
    /\ call = NoCall
    /\ ret = NoRet
    /\ cfg = IdleCfg
    /\ req = NoReq
    /\ data = NoData

CallReadSelected ==
    /\ call.op = "none"
    /\ \E calendar_ids \in Selectors :
          /\ call' = [op |-> "read_calendar_events",
                      base_path |-> CalendarsPath,
                      calendar_ids |-> calendar_ids,
                      days_ahead |-> 1]
          /\ ret' = read_calendar_events(fs, MidnightOf(today), CalendarsPath,
                                         calendar_ids, 1)
    /\ UNCHANGED <<fs, openclaw, today, cfg, req, data>>

CallDiscoverCalendars ==
    /\ call.op = "none"
    /\ call' = [op |-> "discover_calendars", base_path |-> CalendarsPath]
    /\ ret' = discover_calendars(fs, CalendarsPath)
    /\ UNCHANGED <<fs, openclaw, today, cfg, req, data>>

NextRead == CallReadSelected \/ CallDiscoverCalendars

SpecRead == InitRead /\ [][NextRead]_vars

---------------------------------------------------------------------------
(* Direct calls of _try_parse_date, and of _parse_khal_output on one line    *)
(* with a date under a date header                                          *)

\* The digit groups the date tokens of the model are made of
DateParts ==
    { <<"1">>, <<"0", "7">>, <<"1", "3">>, <<"3", "1">>, <<"2", "9">>,
      <<"0", "2">>, <<"0", "0">>, <<"2", "6">>,
      <<"2", "0", "2", "6">>, <<"2", "0", "2", "4">> }

\* A date token: three digit groups and the two separators between them
DateTokens ==
    [a : DateParts, b : DateParts, c : DateParts,
     sep1 : SepChars, sep2 : SepChars]

TokenText(tok) == tok.a \o <<tok.sep1>> \o tok.b \o <<tok.sep2>> \o tok.c

\* The header the dated lines of the model stand under
HeaderLine ==
    <<"T", "o", "d", "a", "y", ",", " ", "2", "0", "2", "5", "-", "1", "2",
      "-", "3", "1", "\n">>

\* What follows the date on a line of the grammars (a), (b) and (c)
LineTails ==
    [a |-> <<" ", "0", "9", ":", "0", "0", " ", "1", "0", ":", "3", "0", " ",
             "S", "t", "a", "n", "d", "u", "p">>,
     b |-> <<" ", "0", "9", ":", "0", "0", " ", "S", "t", "a", "n", "d", "u",
             "p">>,
     c |-> <<" ", "D", "e", "n", "t", "i", "s", "t">>]

InitDate ==
    /\ fs \in {[p \in {CalendarsPath} |-> Missing]}
    /\ openclaw = "/root"
    /\ today = TodayIndex
    /\ call = NoCall
    /\ ret = NoRet
    /\ cfg = IdleCfg
    /\ req = NoReq
    /\ data = NoData

CallTryParseDate ==
    /\ call.op = "none"
    /\ \E tok \in DateTokens, pad \in {<<>>, <<" ">>} :
          /\ call' = [op |-> "_try_parse_date", token |-> tok,
                      s |-> pad \o TokenText(tok) \o pad]
          /\ ret' = Returned(_try_parse_date(pad \o TokenText(tok) \o pad))
    /\ UNCHANGED <<fs, openclaw, today, cfg, req, data>>

CallParseDatedLine ==
    /\ call.op = "none"
    /\ \E tok \in DateTokens, grammar \in DOMAIN LineTails :
          LET content == HeaderLine \o TokenText(tok) \o LineTails[grammar]
          IN  /\ call' = [op |-> "_parse_khal_output", token |-> tok,
                          grammar |-> grammar, content |-> content]
              /\ ret' = Returned(_parse_khal_output(content))
    /\ UNCHANGED <<fs, openclaw, today, cfg, req, data>>

NextDate == CallTryParseDate \/ CallParseDatedLine

SpecDate == InitDate /\ [][NextDate]_vars

---------------------------------------------------------------------------
(* Direct calls of _parse_khal_output on texts of a few lines *)

\* A line of the model: its text, and what it is made of.  kind is "a" for
\* DATE HH:MM HH:MM Title, "b" for DATE HH:MM Title, "c" for DATE Title,
\* "range" for two times and a title, "bare" for a title, "header" for a
\* header word and a rest, "blank", "comment", "other" for a line of one
\* time and a title, and "fence" for a code fence; date is the date the line's date token denotes,
\* <<>> when the line has none or the token denotes none.
TextLine(kind, text, date, time, end, title) ==
    [kind |-> kind, text |-> text, date |-> date, time |-> time,
     end |-> end, title |-> title]

TextLines ==
    {
      TextLine("a",
               <<"2", "0", "2", "6", "-", "0", "2", "-", "0", "7", " ",
                 "0", "9", ":", "0", "0", " ", "1", "0", ":", "0", "0",
                 " ", "S", "t", "a", "n", "d", "u", "p">>,
               <<2026, 2, 7>>, <<9, 0>>, <<10, 0>>,
               <<"S", "t", "a", "n", "d", "u", "p">>),
      TextLine("b",
               <<"0", "8", "/", "0", "2", "/", "2", "0", "2", "6", " ",
                 "0", "9", ":", "0", "0", " ", "R", "e", "v", "i", "e",
                 "w">>,
               <<2026, 2, 8>>, <<9, 0>>, <<>>,
               <<"R", "e", "v", "i", "e", "w">>),
      TextLine("c",
               <<"2", "0", "2", "6", "-", "0", "2", "-", "0", "7", " ",
                 "D", "e", "n", "t", "i", "s", "t">>,
               <<2026, 2, 7>>, <<>>, <<>>,
               <<"D", "e", "n", "t", "i", "s", "t">>),
      TextLine("c",
               <<"2", "0", "2", "6", "-", "1", "3", "-", "0", "7", " ",
                 "N", "e", "v", "e", "r">>,
               <<>>, <<>>, <<>>,
               <<"N", "e", "v", "e", "r">>),
      TextLine("range",
               <<"0", "9", ":", "0", "0", "-", "1", "0", ":", "0", "0",
                 " ", "C", "a", "l", "l">>,
               <<>>, <<9, 0>>, <<10, 0>>,
               <<"C", "a", "l", "l">>),
      TextLine("range",
               <<"1", "1", ":", "3", "0", " ", "1", "2", ":", "0", "0",
                 " ", "L", "u", "n", "c", "h">>,
               <<>>, <<11, 30>>, <<12, 0>>,
               <<"L", "u", "n", "c", "h">>),
      TextLine("bare",
               <<"G", "r", "o", "c", "e", "r", "y", " ", "r", "u", "n">>,
               <<>>, <<>>, <<>>,
               <<"G", "r", "o", "c", "e", "r", "y", " ", "r", "u", "n">>),
      TextLine("header",
               <<"T", "o", "d", "a", "y", ",", " ", "0", "7", "/", "0",
                 "2", "/", "2", "0", "2", "6">>,
               <<2026, 2, 7>>, <<>>, <<>>,
               <<>>),
      TextLine("header",
               <<"S", "a", "t", "u", "r", "d", "a", "y", ",", " ", "0",
                 "8", ".", "0", "2", ".", "2", "0", "2", "6">>,
               <<2026, 2, 8>>, <<>>, <<>>,
               <<>>),
      TextLine("header",
               <<"T", "o", "m", "o", "r", "r", "o", "w", ",", " ", "s",
                 "o", "o", "n">>,
               <<>>, <<>>, <<>>,
               <<>>),
      TextLine("blank",
               <<" ", " ", " ">>,
               <<>>, <<>>, <<>>,
               <<>>),
      TextLine("comment",
               <<"#", " ", "c", "o", "m", "m", "e", "n", "t">>,
               <<>>, <<>>, <<>>,
               <<>>),
      TextLine("other",
               <<"0", "9", ":", "0", "0", " ", "A", "l", "o", "n", "e">>,
               <<>>, <<>>, <<>>,
               <<"A", "l", "o", "n", "e">>),
      TextLine("fence",
               <<Grave, Grave, Grave, "t", "e", "x", "t">>,
               <<>>, <<>>, <<>>,
               <<>>) }

MaxLines == 3

LineSeqs == UNION {[1..n -> TextLines] : n \in 0..MaxLines}

\* The text of the lines, each ended by a line break
Rendered(lines) ==
    FlattenSeq([k \in 1..Len(lines) |-> lines[k].text \o <<"\n">>])

CallParseKhalOutput ==
    /\ call.op = "none"
    /\ \E lines \in LineSeqs :
          /\ call' = [op |-> "_parse_khal_output", lines |-> lines,
                      content |-> Rendered(lines)]
          /\ ret' = Returned(_parse_khal_output(Rendered(lines)))
    /\ UNCHANGED <<fs, openclaw, today, cfg, req, data>>

NextText == CallParseKhalOutput

SpecText == InitDate /\ [][NextText]_vars

---------------------------------------------------------------------------
(* memory_reader and workspace_reader: _safe_path and the readers of one    *)
(* file                                                                     *)

\* A path is the sequence of its segments from the root, a segment a
\* sequence of characters; a filename is [absolute, segs].

DotDot == <<".", ".">>
WorkspaceDir == <<"w">>
MemoryDir == <<"m", "e", "m", "o", "r", "y">>
SkillsDir == <<"s", "k", "i", "l", "l", "s">>
ExtractsDir ==
    <<"s", "e", "s", "s", "i", "o", "n", "-", "e", "x", "t", "r", "a", "c", "t",
      "s">>

\* Path(a) / filename: an absolute filename replaces a
JoinPath(a, filename) ==
    IF filename.absolute THEN filename.segs ELSE a \o filename.segs

\* Path.resolve() where no segment is a symbolic link: "." segments are
\* dropped, ".." drops the segment before it and is dropped at the root
RECURSIVE Normalized(_, _, _)
Normalized(segs, k, acc) ==
    IF k > Len(segs) THEN acc
    ELSE IF segs[k] = <<".">> THEN Normalized(segs, k + 1, acc)
    ELSE IF segs[k] = DotDot
    THEN Normalized(segs, k + 1,
                    IF acc = <<>> THEN acc ELSE SubSeq(acc, 1, Len(acc) - 1))
    ELSE Normalized(segs, k + 1, Append(acc, segs[k]))

ResolvedPath(p) == Normalized(p, 1, <<>>)

\* str(path)
PathStr(p) ==
    IF p = <<>> THEN <<"/">>
    ELSE FlattenSeq([k \in 1..Len(p) |-> <<"/">> \o p[k]])

\* a.startswith(b)
StartsWith(a, b) == Len(b) <= Len(a) /\ SubSeq(a, 1, Len(b)) = b

\* The test of _safe_path with a prefix of segments for a prefix of
\* characters
SafeTest_BySegments(resolved, base_resolved) ==
    StartsWith(resolved, base_resolved)

\* str(resolved).startswith(str(base_resolved))
SafeTest(resolved, base_resolved) ==
    StartsWith(PathStr(resolved), PathStr(base_resolved))

\* <<>> is None, <<p>> the path p
_safe_path(base, filename) ==
    IF SafeTest(ResolvedPath(JoinPath(base, filename)), ResolvedPath(base))
    THEN <<ResolvedPath(JoinPath(base, filename))>>
    ELSE <<>>

\* The files of a tree are records [path, content]; its directories are
\* the proper prefixes of the paths of its files
IsFile(files, p) == \E f \in files : f.path = p
IsDirectory(files, p) ==
    \E f \in files : Len(p) < Len(f.path) /\ SubSeq(f.path, 1, Len(p)) = p
ContentOf(files, p) == (CHOOSE f \in files : f.path = p).content

\* The body the three readers share behind _safe_path: None, written <<>>,
\* when safe is None or does not exist, and when read_text raises, as on a
\* directory; else the dict d, written <<d>>
ReadSafe(files, filename, safe) ==
    IF safe = <<>> THEN Returned(<<>>)
    ELSE IF ~IsFile(files, safe[1]) THEN Returned(<<>>)
    ELSE Returned(<<[filename |-> filename,
                     content |-> ContentOf(files, safe[1])]>>)

read_memory_file(files, base_path, filename) ==
    ReadSafe(files, filename, _safe_path(base_path, filename))

read_skill(files, base_path, filename) ==
    ReadSafe(files, filename,
             _safe_path(Append(base_path, SkillsDir), filename))

read_session_extract(files, base_path, filename) ==
    ReadSafe(files, filename,
             _safe_path(Append(base_path, ExtractsDir), filename))

\* The tree of the model: a file "a" in the workspace, in its directories
\* memory, skills and session-extracts, and in a sibling of each whose name
\* begins with its name
OldSuffix == <<"-", "o", "l", "d">>

SafeDirs == {MemoryDir, SkillsDir, ExtractsDir}

SafeFiles ==
    {[path |-> <<WorkspaceDir, <<"a">>>>, content |-> <<WorkspaceDir>>]}
    \cup {[path |-> <<WorkspaceDir, d, <<"a">>>>, content |-> <<d>>] :
             d \in SafeDirs}
    \cup {[path |-> <<WorkspaceDir, d \o OldSuffix, <<"a">>>>,
           content |-> <<d \o OldSuffix>>] : d \in SafeDirs}

MaxSegs == 3

SafeSegments ==
    {DotDot, <<".">>, <<"a">>, WorkspaceDir}
    \cup SafeDirs \cup {d \o OldSuffix : d \in SafeDirs}

Filenames ==
    [absolute : BOOLEAN,
     segs : UNION {[1..n -> SafeSegments] : n \in 1..MaxSegs}]

InitSafe ==
    /\ fs = SafeFiles
    /\ openclaw = "/root"
    /\ today = TodayIndex
    /\ call = NoCall
    /\ ret = NoRet
    /\ cfg = IdleCfg
    /\ req = NoReq
    /\ data = NoData

CallReadMemoryFile ==
    /\ call.op = "none"
    /\ \E filename \in Filenames :
          /\ call' = [op |-> "read_memory_file",
                      base |-> <<WorkspaceDir, MemoryDir>>,
                      filename |-> filename]
          /\ ret' = read_memory_file(fs, <<WorkspaceDir, MemoryDir>>,
                                     filename)
    /\ UNCHANGED <<fs, openclaw, today, cfg, req, data>>

CallReadSkill ==
    /\ call.op = "none"
    /\ \E filename \in Filenames :
          /\ call' = [op |-> "read_skill",
                      base |-> <<WorkspaceDir, SkillsDir>>,
                      filename |-> filename]
          /\ ret' = read_skill(fs, <<WorkspaceDir>>, filename)
    /\ UNCHANGED <<fs, openclaw, today, cfg, req, data>>

CallReadSessionExtract ==
    /\ call.op = "none"
    /\ \E filename \in Filenames :
          /\ call' = [op |-> "read_session_extract",
                      base |-> <<WorkspaceDir, ExtractsDir>>,
                      filename |-> filename]
          /\ ret' = read_session_extract(fs, <<WorkspaceDir>>, filename)
    /\ UNCHANGED <<fs, openclaw, today, cfg, req, data>>

NextSafe == CallReadMemoryFile \/ CallReadSkill \/ CallReadSessionExtract

SpecSafe == InitSafe /\ [][NextSafe]_vars

---------------------------------------------------------------------------
(* Requests to the endpoints that write, one after the other *)

StoreFiles == {"config.json", "goals.json", "chat_history.json"}

\* The Authorization headers of the model: none, the key's, the key
\* without "Bearer "
Auths == {"", "Bearer k", "k"}

\* The contents of config.json the model starts from
StoredConfigs ==
    { EmptyDict,
      [bot_name |-> ""],
      [calendar_path |-> "/calendars", bot_name |-> "Bo"],
      [calendar_path |-> "/calendars/", theme |-> "dark"],
      [calendar_path |-> "", bot_name |-> "Bo", theme |-> "dark"],
      [calendar_path |-> "/data/cal", theme |-> "dark"] }

StoreFs ==
    {[p \in PathDirs |->
         CASE p = "/calendars" -> c
           [] p = "/data/cal"  -> d
           [] p = "/root" \o VdirCalendars -> v[1]
           [] OTHER -> v[2]] :
       c \in {Missing, Dir(OneCalendar), Unlistable(<<>>)},
       d \in {Missing, Dir(OneCalendar)},
       v \in {<<Missing, Missing>>, <<Dir(OneCalendar), Missing>>,
              <<Missing, Dir(OneCalendar)>>}}

MaxGoals == 1

GoalTitles == {"Run"}

\* The requests served so far have left no trace but the stored files
InitStore ==
    /\ fs \in StoreFs
    /\ openclaw \in {"/root", "/mnt"}
    /\ today = TodayIndex
    /\ call = NoCall
    /\ ret = NoRet
    /\ cfg \in [api_key : {"", "k"}, identity_name : {"", "Pinchy"}]
    /\ req = NoReq
    /\ data \in {[n \in StoreFiles |->
                     IF n = "config.json" THEN c ELSE <<>>] :
                   c \in {<<>>} \cup {<<d>> : d \in StoredConfigs}}

\* The request served: its handler and header, the configured path the
\* handler read when it reads one, and its response
Served(handler, auth, configured_path, r) ==
    [handler |-> handler, auth |-> auth,
     configured_path |-> configured_path,
     status |-> r.status, body |-> r.body]

AddGoal ==
    \E auth \in Auths, title \in GoalTitles :
        LET read == add_goal_read(data)
            goal == [id |-> Len(DictGet(read, "goals", <<>>)) + 1,
                     title |-> title]
            r    == add_goal(cfg.api_key, auth, data, goal)
        IN  /\ Len(DictGet(read, "goals", <<>>)) < MaxGoals
            /\ req' = Served("add_goal", auth, None, r)
            /\ data' = r.store
            /\ UNCHANGED <<fs, openclaw, today, call, ret, cfg>>

ClearChatHistory ==
    \E auth \in Auths :
        LET r == clear_chat_history(cfg.api_key, auth, data)
        IN  /\ req' = Served("clear_chat_history", auth, None, r)
            /\ data' = r.store
            /\ UNCHANGED <<fs, openclaw, today, call, ret, cfg>>

DiscoverCalendars ==
    \E auth \in Auths, gw_calendars \in {<<>>, <<"work">>} :
        LET r == app_discover_calendars(fs, openclaw, data, gw_calendars)
        IN  /\ req' = Served("discover_calendars", auth,
                             _get_config(data).calendar_path, r)
            /\ data' = r.store
            /\ UNCHANGED <<fs, openclaw, today, call, ret, cfg>>

GetSettings ==
    \E auth \in Auths :
        LET r == get_settings(data, cfg.identity_name)
        IN  /\ req' = Served("get_settings", auth, None, r)
            /\ data' = r.store
            /\ UNCHANGED <<fs, openclaw, today, call, ret, cfg>>

NextStore ==
    \/ AddGoal
    \/ ClearChatHistory
    \/ DiscoverCalendars
    \/ GetSettings

SpecStore == InitStore /\ [][NextStore]_vars

---------------------------------------------------------------------------
(* Requests to add_goal served at the same time: the server gives each      *)
(* request a thread, and add_goal takes no lock between its read and its    *)
(* write of goals.json                                                      *)

MaxRequests == 3

GoalRequests == 1..MaxRequests

\* A request that has not read goals.json yet
Arrived(title) ==
    [pc |-> "arrived", title |-> title, read |-> EmptyDict, status |-> 0,
     body |-> <<>>]

InitGoals ==
    /\ fs \in {[p \in {CalendarsPath} |-> Missing]}
    /\ openclaw = "/root"
    /\ today = TodayIndex
    /\ call = NoCall
    /\ ret = NoRet
    /\ cfg \in [api_key : {"", "k"}, identity_name : {""}]
    /\ req \in [GoalRequests -> {Arrived(t) : t \in {"Run", "Read"}}]
    /\ data \in {[n \in StoreFiles |->
                     IF n = "goals.json" THEN g ELSE <<>>] :
                   g \in {<<>>, <<[goals |-> <<>>]>>,
                          <<[goals |-> <<[id |-> 0, title |-> "Walk"]>>,
                             streak |-> 1]>>}}

\* The request passes the decorator and reads goals.json (app.py:193)
GoalRead(r) ==
    /\ req[r].pc = "arrived"
    /\ require_api_key(cfg.api_key, "Bearer " \o cfg.api_key)
    /\ req' = [req EXCEPT ![r].pc = "read", ![r].read = add_goal_read(data)]
    /\ UNCHANGED <<fs, openclaw, today, call, ret, cfg, data>>

\* It appends its goal to what it read, writes goals.json and answers
\* (app.py:194-209); the id is the request's own
GoalWrite(r) ==
    LET goal == [id |-> r, title |-> req[r].title]
        done == add_goal_write(data, req[r].read, goal)
    IN  /\ req[r].pc = "read"
        /\ req' = [req EXCEPT ![r].pc = "done", ![r].status = done.status,
                              ![r].body = <<done.body>>]
        /\ data' = done.store
        /\ UNCHANGED <<fs, openclaw, today, call, ret, cfg>>

NextGoals == \E r \in GoalRequests : GoalRead(r) \/ GoalWrite(r)

SpecGoals == InitGoals /\ [][NextGoals]_vars

---------------------------------------------------------------------------
(* What the claims speak of *)

ReadCalled == call.op = "read_calendar_events"

\* The window of the call made: [today 00:00, today + days_ahead 00:00]
WindowStart == MidnightOf(today)
WindowEnd == MidnightOf(today) + call.days_ahead * MinutesPerDay

\* The entries of the root the call reads
RootEntries == Node(fs, call.base_path).entries

\* Every definition in a file of the root, with its collection's name
RootComponents ==
    UNION {UNION {{[component |-> entry.files[f].components[c],
                    cal_name  |-> CalName(entry)] :
                      c \in 1..Len(entry.files[f].components)} :
                  f \in 1..Len(entry.files)} :
           entry \in {RootEntries[i] : i \in 1..Len(RootEntries)}}

\* The list of events before the sort and the cap, sort keys included
Parsed ==
    CollectedEvents(RootEntries, call.calendar_ids, WindowStart, WindowEnd)

DateLessEq(a, b) == ~StrLess(b, a)

\* The start of an event as a sort key, an all-day event taken at 00:00
StartKey(e) == e.date \o (IF e.time = AllDay THEN <<0, 0>> ELSE e.time)

\* The same, an all-day event taken before every clock time
AllDayFirstKey(e) == e.date \o (IF e.time = AllDay THEN <<0 - 1, 0>> ELSE e.time)

\* The end the specification gives a single event: its explicit end, else
\* one hour after its start
ComputedEnd(c) ==
    IF c.dtend.kind = "none" THEN c.dtstart.t + 60 ELSE c.dtend.t

\* The duration the specification gives the occurrences of a recurring
\* definition: end - start on values of the same type, else one hour
OccurrenceDuration(c) ==
    IF c.dtend.kind = c.dtstart.kind THEN c.dtend.t - c.dtstart.t ELSE 60

\* A definition whose rule is expanded
Recurring(c) ==
    /\ c.name = "VEVENT"
    /\ c.rrule.has
    /\ c.dtstart.kind \in {"date", "datetime"}
    /\ ~_expand_rrule(c, WindowStart, WindowEnd).raised

\* A definition handled as a single event
Single(c) ==
    /\ c.name = "VEVENT"
    /\ c.dtstart.kind \in {"date", "datetime"}
    /\ ~Recurring(c)

\* The indices k of the rule's values that start before the window
IndicesBefore(c) ==
    {k \in 0..((WindowStart - c.dtstart.t) \div c.rrule.step + 1) :
        /\ c.dtstart.t + k * c.rrule.step < WindowStart
        /\ c.rrule.count > 0 => k < c.rrule.count}

\* (start, end) of the events and occurrences of a definition that begin
\* before the window and are still running at its start
RunningAtStart(c) ==
    IF Recurring(c)
    THEN {<<c.dtstart.t + k * c.rrule.step,
            c.dtstart.t + k * c.rrule.step + OccurrenceDuration(c)>> :
             k \in {j \in IndicesBefore(c) :
                      c.dtstart.t + j * c.rrule.step
                          + OccurrenceDuration(c) >= WindowStart}}
    ELSE IF Single(c) /\ c.dtstart.t < WindowStart
                      /\ ComputedEnd(c) >= WindowStart
    THEN {<<c.dtstart.t, ComputedEnd(c)>>}
    ELSE {}

Count(seq, v) == Cardinality({i \in 1..Len(seq) : seq[i] = v})

---------------------------------------------------------------------------
(* C1 *)

\* C1 as stated: every event returned by read_calendar_events has a date d
\* with today <= d <= today + days_ahead.
C1_DateInWindow ==
    ReadCalled =>
        \A i \in 1..Len(ret.value) :
            /\ DateLessEq(DateStr(today), ret.value[i].date)
            /\ DateLessEq(ret.value[i].date, DateStr(today + call.days_ahead))

\* C1 amended: every event returned has a date d <= today + days_ahead, and
\* d >= today unless the event is one that began before today 00:00 and
\* whose end (explicit end, else start + duration or one hour) is at or
\* after today 00:00: such an event is returned under its own start date.
C1_DateUpToWindowEnd ==
    ReadCalled =>
        \A i \in 1..Len(ret.value) :
            /\ DateLessEq(ret.value[i].date, DateStr(today + call.days_ahead))
            /\ \/ DateLessEq(DateStr(today), ret.value[i].date)
               \/ \E rc \in RootComponents :
                    \E o \in RunningAtStart(rc.component) :
                        /\ DateStr(o[1] \div MinutesPerDay) = ret.value[i].date
                        /\ ret.value[i].title = rc.component.summary

\* C1's case: an event on the last day of the window and one dated before
\* today are returned.
C1_Witness ==
    /\ ReadCalled
    /\ call.days_ahead > 0
    /\ \E i \in 1..Len(ret.value) :
          ret.value[i].date = DateStr(today + call.days_ahead)
    /\ \E i \in 1..Len(ret.value) :
          StrLess(ret.value[i].date, DateStr(today))

---------------------------------------------------------------------------
(* C2 *)

---------------------------------------------------------------------------
(* C3 *)

\* C3: at most 50 events are returned, each a parsed one, as many as there
\* are up to 50, and no parsed event left out has a sort key smaller than
\* that of a returned one.
C3_FirstFiftySorted ==
    ReadCalled =>
        LET parsed == Parsed
            plain  == [i \in 1..Len(parsed) |-> PopSortKey(parsed[i])]
        IN  /\ Len(ret.value) <= 50
            /\ Len(ret.value) = (IF Len(parsed) < 50 THEN Len(parsed) ELSE 50)
            /\ \A i \in 1..Len(ret.value) :
                  Count(ret.value, ret.value[i]) <= Count(plain, ret.value[i])
            /\ \A i \in 1..Len(parsed) :
                  Count(ret.value, plain[i]) < Count(plain, plain[i])
                  => \A j \in 1..Len(ret.value) :
                        ~StrLess(parsed[i]._sort_key, StartKey(ret.value[j]))

\* C3's case: more than 50 events were parsed, and one of the second
\* definition is returned while one of the first is cut.
C3_Witness ==
    /\ ReadCalled
    /\ Len(Parsed) > 50
    /\ Len(ret.value) = 50
    /\ Parsed[1].title # ret.value[1].title
    /\ \E i \in 1..Len(ret.value) : ret.value[i].title = Parsed[1].title

---------------------------------------------------------------------------
(* C4 *)

\* C4: _expand_rrule returns at most 50 occurrences for a definition, none
\* with a start behind the window's end.
C4_ExpansionBounded ==
    ReadCalled =>
        \A rc \in RootComponents :
            Recurring(rc.component) =>
                LET x == _expand_rrule(rc.component, WindowStart, WindowEnd)
                IN  /\ Len(x.occurrences) <= 50
                    /\ \A i \in 1..Len(x.occurrences) :
                          x.occurrences[i][1].t <= WindowEnd

\* C4's case: an expansion cut at 50 whose rule has a further value in the
\* window, and one ended by the window's end.
C4_Witness ==
    /\ ReadCalled
    /\ \E rc \in RootComponents :
          /\ Recurring(rc.component)
          /\ rc.component.rrule.count = 0
          /\ LET x == _expand_rrule(rc.component, WindowStart, WindowEnd)
             IN  /\ Len(x.occurrences) = 50
                 /\ x.occurrences[50][1].t + rc.component.rrule.step
                        <= WindowEnd
                 /\ Len(ret.value) = 50

---------------------------------------------------------------------------
(* C5 *)

\* The one definition of a root of a single definition
TheComponent == CHOOSE rc \in RootComponents : TRUE

\* The event the specification derives from a single definition
EventOf(c, cal_name) ==
    [ date     |-> DateStr(c.dtstart.t \div MinutesPerDay),
      time     |-> IF c.dtstart.kind = "date" THEN AllDay
                   ELSE TimeStr(c.dtstart.t),
      end      |-> IF c.dtend.kind = "datetime" THEN TimeStr(c.dtend.t)
                   ELSE EmptyStr,
      title    |-> c.summary,
      location |-> c.location,
      calendar |-> cal_name,
      all_day  |-> c.dtstart.kind = "date" ]

\* C5: a definition without a recurrence rule yields exactly one event, with
\* the definition's fields, when its start is <= windowEnd and its computed
\* end is >= windowStart, and no event otherwise.
C5_SingleEventIffOverlap ==
    (ReadCalled /\ Cardinality(RootComponents) = 1) =>
        LET c == TheComponent.component
        IN  (c.name = "VEVENT" /\ ~c.rrule.has
                /\ c.dtstart.kind \in {"date", "datetime"}) =>
                IF c.dtstart.t <= WindowEnd /\ ComputedEnd(c) >= WindowStart
                THEN ret.value = <<EventOf(c, TheComponent.cal_name)>>
                ELSE ret.value = <<>>

\* C5's case: a single definition that starts exactly at the window's end
\* is returned.
C5_Witness ==
    /\ ReadCalled
    /\ Cardinality(RootComponents) = 1
    /\ ~TheComponent.component.rrule.has
    /\ TheComponent.component.dtstart.t = WindowEnd
    /\ Len(ret.value) = 1

---------------------------------------------------------------------------
(* C6 *)

\* Whether the expansion x holds the rule's k-th value
Kept(c, x, k) ==
    \E i \in 1..Len(x.occurrences) :
        x.occurrences[i][1].t = c.dtstart.t + k * c.rrule.step

\* Whether the rule's k-th value ends at or after the window's start
EndsInWindow(c, k) ==
    c.dtstart.t + k * c.rrule.step + OccurrenceDuration(c) >= WindowStart

\* C6 as stated: an occurrence that starts before windowStart is kept if
\* and only if its end is >= windowStart.
C6_KeptIffEndsInWindow ==
    ReadCalled =>
        \A rc \in RootComponents :
            Recurring(rc.component) =>
                LET c == rc.component
                    x == _expand_rrule(c, WindowStart, WindowEnd)
                IN  \A k \in IndicesBefore(c) :
                        Kept(c, x, k) <=> EndsInWindow(c, k)

\* C6 amended: an occurrence that starts before windowStart and not behind
\* windowEnd is kept if and only if its end is >= windowStart and fewer
\* than 50 occurrences of the definition were kept before it; an occurrence
\* that ends before windowStart is never returned.
C6_KeptIffEndsInWindowUnderCap ==
    ReadCalled =>
        \A rc \in RootComponents :
            Recurring(rc.component) =>
                LET c == rc.component
                    x == _expand_rrule(c, WindowStart, WindowEnd)
                IN  /\ \A k \in IndicesBefore(c) :
                          c.dtstart.t + k * c.rrule.step <= WindowEnd =>
                            (Kept(c, x, k) <=>
                               /\ EndsInWindow(c, k)
                               /\ Cardinality({j \in IndicesBefore(c) :
                                     j < k /\ EndsInWindow(c, j)}) < 50)
                    /\ \A i \in 1..Len(x.occurrences) :
                          x.occurrences[i][2].t >= WindowStart

\* C6's case: an occurrence that started before the window and ends exactly
\* at its start is among the events returned.
C6_Witness ==
    /\ ReadCalled
    /\ Cardinality(RootComponents) = 1
    /\ Recurring(TheComponent.component)
    /\ LET c == TheComponent.component
           x == _expand_rrule(c, WindowStart, WindowEnd)
       IN  /\ x.occurrences # <<>>
           /\ x.occurrences[1][1].t < WindowStart
           /\ x.occurrences[1][2].t = WindowStart
    /\ ret.value # <<>>
    /\ StrLess(ret.value[1].date, DateStr(today))

---------------------------------------------------------------------------
(* C7 *)

\* C7: every event of a definition whose start is date-only has
\* all_day = true and time = "All day", recurring or not.
C7_DateOnlyIsAllDay ==
    (ReadCalled /\ Cardinality(RootComponents) = 1
        /\ TheComponent.component.dtstart.kind = "date") =>
        \A i \in 1..Len(ret.value) :
            ret.value[i].all_day /\ ret.value[i].time = AllDay

---------------------------------------------------------------------------
(* C8: the events request *)

Handled == req.handler # "none"

Consulted == "_calendar_via_gateway" \in Range(req.log)
Contacted == "POST" \in Range(req.log)

\* No call of the gateway comes before a call of ics_reader
FilesFirst ==
    /\ req.log[1] = "find_calendar_path"
    /\ \A i, j \in 1..Len(req.log) :
          (req.log[i] \in {"_calendar_via_gateway", "POST"}
           /\ req.log[j] \in {"find_calendar_path", "read_calendar_events"})
          => j < i

---------------------------------------------------------------------------
(* C9, C10: what find_calendar_path returns *)

FindReturned == call.op = "find_calendar_path" /\ ~ret.raised

\* A candidate is acceptable when it resolves to an existing directory
\* with at least one subdirectory holding at least one .ics file
Acceptable(p) ==
    LET node == Node(fs, Resolve(openclaw, p))
    IN  /\ node.kind = "dir"
        /\ \E i \in 1..Len(node.entries) :
              /\ node.entries[i].isDir
              /\ \E k \in 1..Len(node.entries[i].files) :
                    node.entries[i].files[k].ext = "ics"

\* The candidates in the order of the claim: the configured path when it
\* is not empty, then the fixed fallbacks as listed
Candidates ==
    (IF call.configured_path \in {None, ""} THEN <<>>
     ELSE <<call.configured_path>>) \o _FALLBACK_PATHS

FirstAcceptable ==
    CHOOSE i \in 1..Len(Candidates) :
        /\ Acceptable(Candidates[i])
        /\ \A j \in 1..(i - 1) : ~Acceptable(Candidates[j])

---------------------------------------------------------------------------
(* C11 *)

EmptySelector == ~call.calendar_ids.none /\ call.calendar_ids.list = {}

\* C11: read_calendar_events with an empty list of collection ids returns
\* what it returns with the selector None, the events of all collections;
\* with a non-empty selector every event returned comes from a collection
\* whose id is in the selector.
C11_EmptySelectorReadsAll ==
    ReadCalled =>
        /\ EmptySelector =>
              ret = read_calendar_events(fs, MidnightOf(today),
                                         call.base_path, NoneIds,
                                         call.days_ahead)
        /\ (~call.calendar_ids.none /\ ~EmptySelector) =>
              \A i \in 1..Len(ret.value) :
                  \E k \in 1..Len(RootEntries) :
                      /\ RootEntries[k].name \in call.calendar_ids.list
                      /\ ret.value[i].calendar = CalName(RootEntries[k])

---------------------------------------------------------------------------
(* C12 *)

\* C12: no call of a core operation raises, whatever the filesystem holds:
\* a root that is a regular file, or a directory that cannot be listed,
\* gives an empty or smaller result.
C12_NeverRaises == call.op # "none" => ~ret.raised

---------------------------------------------------------------------------
(* C13 *)

\* A definition the parser cannot make an event of: its DTSTART is missing
\* or is no date and no datetime
Malformed(component) == component.dtstart.kind \notin {"date", "datetime"}

\* The entries without the files that cannot be read and without the
\* malformed definitions
Cleaned(entries) ==
    [i \in 1..Len(entries) |->
        [entries[i] EXCEPT !.files =
            LET kept == SelectSeq(@, LAMBDA f : f.readable)
            IN  [k \in 1..Len(kept) |->
                    [kept[k] EXCEPT !.components =
                        SelectSeq(@, LAMBDA c : ~Malformed(c))]]]]

\* C13: a calendar file that cannot be read or parsed, and a malformed
\* definition inside a file, contribute no events and leave the events of
\* the other files and definitions as they are: the merged list before the
\* cap, and the list returned, are those of the root without the bad items.
C13_BadItemsChangeNothing ==
    (ReadCalled /\ ~ret.raised) =>
        /\ CollectedEvents(RootEntries, call.calendar_ids,
                           WindowStart, WindowEnd)
             = CollectedEvents(Cleaned(RootEntries), call.calendar_ids,
                               WindowStart, WindowEnd)
        /\ ret.value =
             SortStripCap(CollectedEvents(Cleaned(RootEntries),
                                          call.calendar_ids,
                                          WindowStart, WindowEnd))

\* A file with a malformed definition before a good one was read and gave
\* events
C13_Witness ==
    /\ ReadCalled
    /\ call.calendar_ids = Ids({<<"w">>})
    /\ ret.value # <<>>
    /\ \E k \in 1..Len(RootEntries) :
          /\ RootEntries[k].name = <<"w">>
          /\ \E f \in 1..Len(RootEntries[k].files) :
                LET file == RootEntries[k].files[f]
                IN  /\ file.readable
                    /\ Len(file.components) > 1
                    /\ Malformed(file.components[1])
                    /\ ~Malformed(file.components[2])

---------------------------------------------------------------------------
(* C17 *)

\* The number a digit group writes
GroupValue(g) == NumberAt(g, 1, Len(g))

\* The date a token denotes under an order of year, month and day written
\* with the separator sep, <<>> when it denotes none: the separators are
\* sep, the year has four digits, month and day at most two, and the day
\* exists in the month
DenotedDate(tok, y, m, d, sep) ==
    IF /\ tok.sep1 = sep /\ tok.sep2 = sep
       /\ Len(y) = 4 /\ GroupValue(y) >= 1
       /\ Len(m) <= 2 /\ GroupValue(m) \in 1..12
       /\ Len(d) <= 2 /\ GroupValue(d) >= 1
       /\ GroupValue(d) <= DaysInMonth(GroupValue(y), GroupValue(m))
    THEN <<GroupValue(y), GroupValue(m), GroupValue(d)>>
    ELSE <<>>

\* The readings of a token in the order of the claim: YYYY-MM-DD,
\* DD/MM/YYYY, DD.MM.YYYY, MM/DD/YYYY, DD-MM-YYYY
Readings(tok) ==
    << DenotedDate(tok, tok.a, tok.b, tok.c, "-"),
       DenotedDate(tok, tok.c, tok.b, tok.a, "/"),
       DenotedDate(tok, tok.c, tok.b, tok.a, "."),
       DenotedDate(tok, tok.c, tok.a, tok.b, "/"),
       DenotedDate(tok, tok.c, tok.b, tok.a, "-") >>

\* The first reading that is a date, <<>> when none is
FirstReading(tok) ==
    LET good == {k \in 1..5 : Readings(tok)[k] # <<>>}
    IN  IF good = {} THEN <<>>
        ELSE Readings(tok)[CHOOSE k \in good : \A j \in good : k <= j]

\* C17: _try_parse_date returns the ISO date of the first of the formats
\* YYYY-MM-DD, DD/MM/YYYY, DD.MM.YYYY, MM/DD/YYYY, DD-MM-YYYY that parses
\* its argument (a slash date valid both ways is read day first), and None
\* when none parses; a line of grammar (a), (b) or (c) whose date token
\* does not parse emits no event, not even as a line of a lower grammar.
C17_FirstFormatWins ==
    /\ call.op = "_try_parse_date" => ret.value = FirstReading(call.token)
    /\ (call.op = "_parse_khal_output" /\ FirstReading(call.token) = <<>>)
          => ret.value = <<>>
    /\ (call.op = "_parse_khal_output" /\ ret.value # <<>>)
          => /\ Len(ret.value) = 1
             /\ ret.value[1].date = FirstReading(call.token)

\* 07/02/2026 was read as the 7th of February, and 02/13/2026, which is no
\* date day first, as the 13th of February
C17_Witness ==
    /\ call.op = "_try_parse_date"
    /\ \/ /\ call.s = <<"0", "7", "/", "0", "2", "/", "2", "0", "2", "6">>
          /\ ret.value = <<2026, 2, 7>>
       \/ /\ call.s = <<"0", "2", "/", "1", "3", "/", "2", "0", "2", "6">>
          /\ ret.value = <<2026, 2, 13>>

---------------------------------------------------------------------------
(* C18 *)

\* The events of the text parser a request handed out: those of a response
\* that came from the gateway, and the parsed events of the debug dict
ParsedHandedOut ==
    IF req.handler = "debug"
    THEN IF req.pc = "done" /\ "gateway_parsed_events" \in DOMAIN req.debug
         THEN req.debug.gateway_parsed_events ELSE <<>>
    ELSE IF req.response.source = "gateway" THEN req.response.events
    ELSE <<>>

\* C18: at every call site that hands out the result of the text parser
\* (the events endpoint, the collector, the debug endpoint) at most 50
\* events of it are handed out, whatever the text.
C18_AtMostFiftyParsed == Len(ParsedHandedOut) <= 50

---------------------------------------------------------------------------
(* C14, C15, C16: the lines of a text and the events of its parse *)

TextParsed == call.op = "_parse_khal_output" /\ "lines" \in DOMAIN call

\* The date in force at line k: that of the last header before it whose
\* date is one, <<>> when there is none
DateInForce(lines, k) ==
    LET hs == {j \in 1..(k - 1) :
                  lines[j].kind = "header" /\ lines[j].date # <<>>}
    IN  IF hs = {} THEN <<>>
        ELSE lines[CHOOSE j \in hs : \A i \in hs : i <= j].date

\* Line k has a date of its own that is one
Dated(lines, k) == lines[k].kind \in {"a", "b", "c"} /\ lines[k].date # <<>>

\* Line k is a time range or a bare title with a date in force
Undated(lines, k) ==
    lines[k].kind \in {"range", "bare"} /\ DateInForce(lines, k) # <<>>

Emits(lines, k) == Dated(lines, k) \/ Undated(lines, k)

Emitting(lines) == {k \in 1..Len(lines) : Emits(lines, k)}

\* The place of the event of an emitting line among the events
Place(lines, k) == Cardinality({j \in 1..k : Emits(lines, j)})

\* C14: every line that is not a header produces at most one event, that
\* of the first grammar that matches with a date that parses: (a) a timed
\* event with the end given, (b) a timed event with end "", (c) an all-day
\* event with end "", (d) under a date in force a timed event of a time
\* range or an all-day event of a bare title; the events keep the order of
\* their lines.
C14_FirstGrammarPerLine ==
    TextParsed =>
        /\ Len(ret.value) = Cardinality(Emitting(call.lines))
        /\ \A k \in Emitting(call.lines) :
              LET l == call.lines[k]
                  e == ret.value[Place(call.lines, k)]
              IN  /\ e.title = l.title
                  /\ l.kind \in {"a", "range"} =>
                        e.time = l.time /\ e.end = l.end /\ ~e.all_day
                  /\ l.kind = "b" =>
                        e.time = l.time /\ e.end = EmptyStr /\ ~e.all_day
                  /\ l.kind \in {"c", "bare"} =>
                        e.time = AllDay /\ e.end = EmptyStr /\ e.all_day
                  /\ Dated(call.lines, k) => e.date = l.date

\* "2026-02-07 09:00 10:00 Standup" and "2026-02-07 Dentist" gave a timed
\* event that ends at 10:00 and an all-day event
C14_Witness ==
    /\ TextParsed
    /\ Len(call.lines) = 2
    /\ call.lines[1].kind = "a" /\ call.lines[2].kind = "c"
    /\ Len(ret.value) = 2
    /\ ret.value[1].end = <<10, 0>> /\ ~ret.value[1].all_day
    /\ ret.value[2].end = EmptyStr /\ ret.value[2].all_day
    /\ ret.value[2].date = <<2026, 2, 7>>

\* C15: a header whose date parses emits no event, and every later time
\* range or bare title up to the next such header is emitted with the
\* header's date, while a line with a date of its own keeps its own.
C15_HeaderDatesLinesBelow ==
    TextParsed =>
        /\ Len(ret.value) <=
              Cardinality({k \in 1..Len(call.lines) :
                              call.lines[k].kind # "header"})
        /\ \A k \in 1..Len(call.lines) :
              /\ Undated(call.lines, k) =>
                    ret.value[Place(call.lines, k)].date
                        = DateInForce(call.lines, k)
              /\ Dated(call.lines, k) =>
                    ret.value[Place(call.lines, k)].date
                        = call.lines[k].date

\* A header dated the time range below it, and the line after that kept
\* the date of its own
C15_Witness ==
    /\ TextParsed
    /\ Len(call.lines) = 3
    /\ call.lines[1].kind = "header" /\ call.lines[1].date = <<2026, 2, 8>>
    /\ call.lines[2].kind = "range"
    /\ call.lines[3].kind = "a"
    /\ Len(ret.value) = 2
    /\ ret.value[1].date = <<2026, 2, 8>>
    /\ ret.value[2].date = <<2026, 2, 7>>

\* Line k is blank, a comment, or matches none of the grammars with a date
\* of their own while no date is in force
Dropped(lines, k) ==
    \/ lines[k].kind \in {"blank", "comment"}
    \/ /\ lines[k].kind # "header"
       /\ ~Dated(lines, k)
       /\ DateInForce(lines, k) = <<>>

\* C16: a line that is blank, starts with '#', or matches none of the
\* grammars (a)-(c) while no date is in force produces no event and does
\* not stop the parse: the lines after it give their events; a text of
\* such lines only, the empty text among them, gives the empty list.
C16_DroppedLinesChangeNothing ==
    TextParsed =>
        /\ \A k \in 1..Len(call.lines) :
              Dropped(call.lines, k) =>
                  /\ ~Emits(call.lines, k)
                  /\ \A j \in Emitting(call.lines) :
                        j > k =>
                          /\ Place(call.lines, j) <= Len(ret.value)
                          /\ ret.value[Place(call.lines, j)].title
                                = call.lines[j].title
        /\ (\A k \in 1..Len(call.lines) : Dropped(call.lines, k))
              => ret.value = <<>>
        /\ Len(ret.value) =
              Cardinality({k \in 1..Len(call.lines) :
                              ~Dropped(call.lines, k)
                              /\ Emits(call.lines, k)})

\* A blank line and a comment stood before a line with a date, which gave
\* its event
C16_Witness ==
    /\ TextParsed
    /\ Len(call.lines) = 3
    /\ call.lines[1].kind = "blank" /\ call.lines[2].kind = "comment"
    /\ call.lines[3].kind = "c"
    /\ Len(ret.value) = 1
    /\ ret.value[1].title = call.lines[3].title

---------------------------------------------------------------------------
(* C19 *)

SevenFields ==
    {"date", "time", "end", "title", "location", "calendar", "all_day"}

\* What read_calendar_events returned to the request
ReadReturned == IF req.handler \in {"app", "collector"} THEN req.aggregated
                ELSE <<>>

\* C19: every event read_calendar_events returns and every event
\* _parse_khal_output returns has exactly the fields date, time, end,
\* title, location, calendar and all_day, so never _sort_key, whether or
\* not the cap of 50 cut the list.
C19_ExactlySevenFields ==
    /\ \A i \in 1..Len(ReadReturned) : DOMAIN ReadReturned[i] = SevenFields
    /\ \A i \in 1..Len(ParsedHandedOut) :
          DOMAIN ParsedHandedOut[i] = SevenFields

\* read_calendar_events returned the 50 events the cap leaves
C19_Witness ==
    /\ req.handler = "app"
    /\ Len(req.aggregated) = 50
    /\ DOMAIN req.aggregated[50] = SevenFields

---------------------------------------------------------------------------
(* C20 *)

\* The directory of the root a listed collection stands for
EntryOf(id) ==
    LET entries == Node(fs, call.base_path).entries
    IN  entries[CHOOSE i \in 1..Len(entries) : entries[i].name = id]

\* The name of the claim: the content of the displayname file, surrounding
\* whitespace aside, when the file is there, can be read and holds any,
\* the humanized id otherwise
ClaimedName(entry) ==
    LET dn == entry.displayname
    IN  IF dn.exists /\ dn.readable /\ Strip(dn.text) # <<>>
        THEN Strip(dn.text)
        ELSE _friendly_name(entry.name)

\* C20: every collection discover_calendars lists is named by the content
\* of its displayname file when the file is present and not empty, and by
\* its humanized id when the file is absent, unreadable or empty.
C20_NameFromFileOrId ==
    (call.op = "discover_calendars" /\ ~ret.raised) =>
        \A i \in 1..Len(ret.value) :
            ret.value[i].name = ClaimedName(EntryOf(ret.value[i].id))

---------------------------------------------------------------------------
(* C21 *)

\* C21: for every recurring definition the expansion loop takes at most 50
\* values from the rule, wherever the rule's first value lies relative to
\* the window.
C21_AtMostFiftyIterations ==
    ReadCalled =>
        \A rc \in RootComponents :
            Recurring(rc.component) =>
                _expand_rrule(rc.component, WindowStart,
                              WindowEnd).iterations <= 50

---------------------------------------------------------------------------
(* C22 *)

\* An event returned with the sort key it was given when it was made: its
\* date and its time, "All day" written 00:00
Rekeyed(e) == [f \in DOMAIN e \cup {"_sort_key"} |->
                  IF f = "_sort_key" THEN StartKey(e) ELSE e[f]]

\* C22: the sort of read_calendar_events applied to the list it returned
\* gives the list back element for element, as the events are returned and
\* with their sort keys put back.
C22_SortIdempotent ==
    (ReadCalled /\ ~ret.raised) =>
        /\ SortBySortKey(ret.value) = ret.value
        /\ LET keyed == [i \in 1..Len(ret.value) |-> Rekeyed(ret.value[i])]
           IN  SortBySortKey(keyed) = keyed

\* The sort had moved an event ahead of one collected before it, and two
\* of the events returned have equal keys
C22_Witness ==
    /\ ReadCalled
    /\ Len(ret.value) >= 2
    /\ \E i \in 1..(Len(ret.value) - 1) :
          StartKey(ret.value[i]) = StartKey(ret.value[i + 1])
    /\ PopSortKey(Parsed[1]) # ret.value[1]

---------------------------------------------------------------------------
(* C23 *)

SafeRead ==
    call.op \in {"read_memory_file", "read_skill", "read_session_extract"}

\* The contents of the files inside the base directory of the call
ContentsInside ==
    {f.content : f \in {g \in fs :
        /\ Len(call.base) < Len(g.path)
        /\ SubSeq(g.path, 1, Len(call.base)) = call.base}}

\* C23: read_memory_file, read_skill and read_session_extract return the
\* content only of a file inside their base directory, and None for a
\* filename that leads anywhere else, a sibling directory whose name begins
\* with the name of the base directory included.
C23_OnlyInsideBase ==
    (SafeRead /\ ret.value # <<>>) =>
        ret.value[1].content \in ContentsInside

---------------------------------------------------------------------------
(* C24 *)

\* The routes of the model whose handler writes a stored file
WritingEndpoints ==
    {"add_goal", "clear_chat_history", "discover_calendars", "get_settings"}

\* C24: with a key set, a request to an endpoint that writes stored data
\* whose Authorization header is not "Bearer <key>" is answered 401 and
\* leaves every stored file as it was.
C24_WritersNeedTheKey ==
    [][(/\ cfg.api_key # ""
        /\ req'.handler \in WritingEndpoints
        /\ req'.auth # "Bearer " \o cfg.api_key)
       => (req'.status = 401 /\ data' = data)]_vars

---------------------------------------------------------------------------
(* C29 *)

\* The step serves a request to the discover endpoint
Discovering == req'.handler = "discover_calendars"

\* It answers with a root found by auto-detection at another path than the
\* configured one
AutoDetectedElsewhere ==
    /\ req'.status = 200
    /\ req'.body.source = "auto-detected"
    /\ req'.body.calendar_path # req'.configured_path

\* C29: a discover request that resolves the root by auto-detection at a
\* path other than the configured one leaves config.json with that path as
\* calendar_path and every other setting as it was, and the next resolution
\* on the same files gives the same path as "configured"; any other discover
\* request leaves the stored files as they were.
C29_AutoDetectedPathIsSaved ==
    [][Discovering =>
        IF AutoDetectedElsewhere
        THEN /\ data' = _write_json(data, "config.json",
                            DictSet(_read_json(data, "config.json", EmptyDict),
                                    "calendar_path", req'.body.calendar_path))
             /\ _get_config(data').calendar_path = req'.body.calendar_path
             /\ find_calendar_path(fs', openclaw',
                                   _get_config(data').calendar_path)
                  = Returned(<<req'.body.calendar_path, "configured">>)
        ELSE data' = data]_vars

\* A request saved the auto-detected path next to another setting
C29_Witness ==
    /\ req.handler = "discover_calendars"
    /\ req.status = 200
    /\ req.body.source = "auto-detected"
    /\ req.body.calendar_path # req.configured_path
    /\ data["config.json"] # <<>>
    /\ data["config.json"][1].calendar_path = req.body.calendar_path
    /\ "theme" \in DOMAIN data["config.json"][1]

---------------------------------------------------------------------------
(* C30 *)

\* The goals goals.json holds
StoredGoals == Range(DictGet(add_goal_read(data), "goals", <<>>))

\* C30: once every request to add_goal has been answered, each goal that
\* was answered with 201 is in goals.json.
C30_NoGoalLost ==
    (\A r \in GoalRequests : req[r].pc = "done")
        => \A r \in GoalRequests :
              req[r].status = 201 => req[r].body[1] \in StoredGoals

---------------------------------------------------------------------------
(* C26 *)

\* A definition with a rule whose expansion raises
ExpansionRaises(c) ==
    /\ c.name = "VEVENT"
    /\ c.rrule.has
    /\ c.dtstart.kind # "none"
    /\ _expand_rrule(c, WindowStart, WindowEnd).raised

\* The window test of a non-recurring definition on its own start and end
PassesSingleTest(c) ==
    /\ c.dtstart.kind \in {"date", "datetime"}
    /\ c.dtstart.t <= WindowEnd
    /\ ComputedEnd(c) >= WindowStart

\* C26: a definition with a rule whose expansion raises yields one event,
\* that of the definition as a single event, when its own start and end
\* pass the window test of a non-recurring definition, and no event
\* otherwise.
C26_RaisingRuleIsSingleEvent ==
    (ReadCalled /\ Cardinality(RootComponents) = 1
        /\ ExpansionRaises(TheComponent.component)) =>
        IF PassesSingleTest(TheComponent.component)
        THEN ret.value = <<EventOf(TheComponent.component,
                                   TheComponent.cal_name)>>
        ELSE ret.value = <<>>

\* A definition whose rule does not parse, inside the window, came back as
\* one event
C26_Witness ==
    /\ ReadCalled
    /\ Cardinality(RootComponents) = 1
    /\ ExpansionRaises(TheComponent.component)
    /\ ~TheComponent.component.rrule.valid
    /\ Len(ret.value) = 1

---------------------------------------------------------------------------
(* C27 *)

\* Line k is a header whose rest does not parse as a date
BadHeader(lines, k) == lines[k].kind = "header" /\ lines[k].date = <<>>

\* The time ranges and bare titles after line k up to the next header
\* whose date parses
Below(lines, k) ==
    {j \in (k + 1)..Len(lines) :
        /\ lines[j].kind \in {"range", "bare"}
        /\ \A i \in (k + 1)..(j - 1) :
              ~(lines[i].kind = "header" /\ lines[i].date # <<>>)}

\* C27: a header whose rest does not parse as a date emits no event and
\* leaves the date in force as it was: the time ranges and bare titles below
\* it carry the date of the header before it, and are dropped when there is
\* none.
C27_BadHeaderKeepsDate ==
    TextParsed =>
        \A k \in 1..Len(call.lines) :
            BadHeader(call.lines, k) =>
                /\ ParseState(Rendered(SubSeq(call.lines, 1, k)))
                      = ParseState(Rendered(SubSeq(call.lines, 1, k - 1)))
                /\ Len(ret.value) = Cardinality(Emitting(call.lines))
                /\ \A j \in Below(call.lines, k) :
                      IF DateInForce(call.lines, k) = <<>>
                      THEN ~Emits(call.lines, j)
                      ELSE /\ Emits(call.lines, j)
                           /\ ret.value[Place(call.lines, j)].date
                                 = DateInForce(call.lines, k)
                           /\ ret.value[Place(call.lines, j)].title
                                 = call.lines[j].title

\* "Today, 07/02/2026", then "Tomorrow, soon", then a time range: the one
\* event is dated 2026-02-07
C27_Witness ==
    /\ TextParsed
    /\ Len(call.lines) = 3
    /\ call.lines[1].kind = "header" /\ call.lines[1].date # <<>>
    /\ BadHeader(call.lines, 2)
    /\ call.lines[3].kind = "range"
    /\ Len(ret.value) = 1
    /\ ret.value[1].date = call.lines[1].date

---------------------------------------------------------------------------
(* C28 *)

\* The orders in which a directory of these entries may be enumerated
Orderings(entries) ==
    {[i \in 1..Len(entries) |-> entries[p[i]]] :
        p \in {q \in [1..Len(entries) -> 1..Len(entries)] :
                  \A i, j \in 1..Len(entries) : q[i] = q[j] => i = j}}

\* C28: the list read_calendar_events returns is the same for every order
\* in which the root's entries are enumerated.
C28_EnumerationOrderFree ==
    (ReadCalled /\ ~ret.raised) =>
        \A entries \in Orderings(RootEntries) :
            read_calendar_events(
                [fs EXCEPT ![call.base_path].entries = entries],
                MidnightOf(today), call.base_path, call.calendar_ids,
                call.days_ahead) = ret

---------------------------------------------------------------------------
(* C25 *)

\* C25: on every text, the parser of collector.py returns the list of
\* events the parser of app.py returns.
C25_CopiesAgree ==
    TextParsed => collector_parse_khal_output(call.content) = ret.value

\* A fenced text with a slash date, where the order of the formats
\* matters, gave the same two events in both
C25_Witness ==
    /\ TextParsed
    /\ Len(call.lines) = 3
    /\ call.lines[1].kind = "fence"
    /\ call.lines[2].kind = "b"
    /\ call.lines[3].kind = "range"
    /\ Len(ret.value) = 1
    /\ ret.value[1].date = <<2026, 2, 8>>
    /\ collector_parse_khal_output(call.content) = ret.value

====
